---- MODULE Spec2Model ----
(***************************************************************************)
(* confluence-mcp: the tool dispatcher (CallTool request handler), the     *)
(* ConfluenceClient adapter with its space cache, the allowlist check and  *)
(* the audit logger's sanitizer, as a state machine.  One tool call is in  *)
(* flight at a time; every remote request of the adapter is one step, so   *)
(* the remote system's other users and the clock interleave with a call    *)
(* exactly at its await points.                                            *)
(***************************************************************************)
EXTENDS Integers, Sequences, FiniteSets, TLC

\* ---------------------------------------------------------------- bounds
MaxCalls == 1          \* calls started in one behaviour of Spec (any tool)
MaxLookups == 2        \* calls started in one behaviour of SpecCache (space tools)
MaxTime == 3           \* the clock stops ticking here
MaxPages == 4          \* page identifiers 1..MaxPages; the remote assigns them in order
MaxEnvMoves == 1       \* moves of a page by another user of the remote system
MaxWrites == 4         \* writeLog invocations started in one behaviour of SpecTrim

\* CACHE_TTL is one hour; the model's clock ticks in half hours.
CACHE_TTL == 2

\* ------------------------------------------------------- absent arguments
\* JavaScript's undefined for a string, an identifier and a number argument.
Undef == "undefined"
NoId == 0
NoVersion == 0

Falsy(s) == s = Undef \/ s = ""

\* ----------------------------------------------------------------- strings
\* Where the characters of a string matter it is the sequence of them.
Upper == <<"A", "B", "C", "D", "E", "F", "G", "H", "I", "J", "K", "L", "M",
           "N", "O", "P", "Q", "R", "S", "T", "U", "V", "W", "X", "Y", "Z">>
Lower == <<"a", "b", "c", "d", "e", "f", "g", "h", "i", "j", "k", "l", "m",
           "n", "o", "p", "q", "r", "s", "t", "u", "v", "w", "x", "y", "z">>

toLowerCase(name) ==
  [i \in 1..Len(name) |->
     IF \E j \in 1..26 : Upper[j] = name[i]
     THEN Lower[CHOOSE j \in 1..26 : Upper[j] = name[i]]
     ELSE name[i]]

includes(hay, needle) ==
  \E i \in 0..(Len(hay) - Len(needle)) : SubSeq(hay, i + 1, i + Len(needle)) = needle

\* String.prototype.trim, for blanks
RECURSIVE trim(_)
trim(str) ==
  IF str # <<>> /\ Head(str) = " " THEN trim(Tail(str))
  ELSE IF str # <<>> /\ str[Len(str)] = " " THEN trim(SubSeq(str, 1, Len(str) - 1))
  ELSE str

\* String.prototype.split(sep) for a one-character separator
RECURSIVE split(_, _)
split(str, sep) ==
  IF \E i \in 1..Len(str) : str[i] = sep
  THEN LET i == CHOOSE k \in 1..Len(str) :
                  str[k] = sep /\ \A m \in 1..(k - 1) : str[m] # sep
       IN <<SubSeq(str, 1, i - 1)>> \o split(SubSeq(str, i + 1, Len(str)), sep)
  ELSE <<str>>

\* ------------------------------------------------------------- config.ts
\* process.env is a function from the names that are set to their values.
RequiredEnv ==
  <<"CONFLUENCE_BASE_URL", "CONFLUENCE_USERNAME", "CONFLUENCE_API_TOKEN", "ALLOWED_SPACES">>

\* !process.env[name]: not set, or set to the empty string
Unset(e, name) == name \notin DOMAIN e \/ e[name] = <<>>

NoConfig ==
  [status |-> "unloaded", baseUrl |-> <<>>, username |-> <<>>, apiToken |-> <<>>,
   allowedSpaces |-> <<>>, debug |-> FALSE]

\* throw new Error('<name> environment variable is required')
ConfigError(name) == [NoConfig EXCEPT !.status = name]

\* baseUrl.replace(/\/$/, '')
stripSlash(url) ==
  IF url # <<>> /\ url[Len(url)] = "/" THEN SubSeq(url, 1, Len(url) - 1) ELSE url

ConfigOf(e) ==
  [status |-> "ok",
   baseUrl |-> stripSlash(e["CONFLUENCE_BASE_URL"]),
   username |-> e["CONFLUENCE_USERNAME"],
   apiToken |-> e["CONFLUENCE_API_TOKEN"],
   allowedSpaces |-> LET parts == split(e["ALLOWED_SPACES"], ",")
                     IN [i \in 1..Len(parts) |-> trim(parts[i])],
   debug |-> "DEBUG" \in DOMAIN e /\ e["DEBUG"] = <<"t", "r", "u", "e">>]

\* a getConfig that does not ask for the token
getConfigTokenOptional(e) ==
  IF Unset(e, "CONFLUENCE_BASE_URL") THEN ConfigError("CONFLUENCE_BASE_URL")
  ELSE IF Unset(e, "CONFLUENCE_USERNAME") THEN ConfigError("CONFLUENCE_USERNAME")
  ELSE IF Unset(e, "ALLOWED_SPACES") THEN ConfigError("ALLOWED_SPACES")
  ELSE ConfigOf([n \in DOMAIN e \cup {"CONFLUENCE_API_TOKEN"} |->
                   IF n \in DOMAIN e THEN e[n] ELSE <<>>])

getConfig(e) ==
  IF Unset(e, "CONFLUENCE_BASE_URL") THEN ConfigError("CONFLUENCE_BASE_URL")
  ELSE IF Unset(e, "CONFLUENCE_USERNAME") THEN ConfigError("CONFLUENCE_USERNAME")
  ELSE IF Unset(e, "CONFLUENCE_API_TOKEN") THEN ConfigError("CONFLUENCE_API_TOKEN")
  ELSE IF Unset(e, "ALLOWED_SPACES") THEN ConfigError("ALLOWED_SPACES")
  ELSE ConfigOf(e)

\* the allowlist of the running server
AllowedSpaces == <<"DEV", "OPS">>

\* an allowlist check that folds case
validateSpaceAccessIgnoreCase(spaceKey, allowedSpaces) ==
  \E i \in 1..Len(allowedSpaces) : toLowerCase(allowedSpaces[i]) = toLowerCase(spaceKey)

validateSpaceAccess(spaceKey, allowedSpaces) ==
  \E i \in 1..Len(allowedSpaces) : allowedSpaces[i] = spaceKey

Allowed(k) == validateSpaceAccess(k, AllowedSpaces)

\* --------------------------------------------------------- remote system
\* A space descriptor; id = Undef is a descriptor without identifier.
SpaceDesc(id, key) == [id |-> id, key |-> key]

\* The remote space listing, as the pages of GET /spaces; page i's next
\* link carries cursor i+1, the last page has no next link.
RemoteListings ==
  { << <<SpaceDesc("s1", "DEV"), SpaceDesc("s9", "SECRET")>> >>,
    << <<SpaceDesc("s9", "SECRET"), SpaceDesc("s1", "DEV")>>,
       <<SpaceDesc("s2", "OPS")>> >>,
    << <<SpaceDesc("s9", "SECRET")>>, <<SpaceDesc(Undef, "OPS")>> >> }

PageIds == 1..MaxPages
NoPage == [exists |-> FALSE, space |-> Undef, version |-> 0, title |-> Undef, parent |-> NoId]
MkPage(space, version, title, parent) ==
  [exists |-> TRUE, space |-> space, version |-> version, title |-> title, parent |-> parent]

VARIABLES
  now,               \* Date.now()
  listing,           \* remote: the space listing
  pages,             \* remote: page identifier -> page
  nextId,            \* remote: the identifier the next created page gets
  spaceCache,        \* ConfluenceClient.spaceCache: key -> descriptor
  spaceCacheExpiry,  \* ConfluenceClient.spaceCacheExpiry: key -> time
  call,              \* the call in flight: entry point, arguments, position, locals, result
  http,              \* the remote requests the call in flight has issued, in order
  prev,              \* summary of the call that ended before the one in flight
  ncalls,            \* calls started
  envMoves,          \* moves by other users
  logFile,           \* Logger: the lines of the audit log file
  env,               \* process.env
  config,            \* index.ts: const config = getConfig()
  access,            \* the last validateSpaceAccess call: arguments and result
  stdout,            \* what the process wrote to standard output since the call arrived
  stderr,            \* what it wrote to standard error since the call arrived
  writers,           \* Logger: the writeLog invocations in flight, each at its await
  nwrites            \* Logger: writeLog invocations started

vars == <<now, listing, pages, nextId, spaceCache, spaceCacheExpiry, call, http,
          prev, ncalls, envMoves, logFile, env, config, access, stdout, stderr,
          writers, nwrites>>

remoteVars == <<listing, pages, nextId>>
cacheVars == <<spaceCache, spaceCacheExpiry>>
configVars == <<env, config, access>>
consoleVars == <<stdout, stderr>>
writerVars == <<writers, nwrites>>

\* ------------------------------------------------------------ call state
NoArgs ==
  [query |-> Undef, title |-> Undef, spaceKey |-> Undef, pageId |-> NoId,
   content |-> Undef, version |-> NoVersion, targetSpaceKey |-> Undef,
   parentId |-> NoId, spaceId |-> Undef, bodyFormat |-> Undef, cursor |-> 0]

NoData == [t |-> "none"]
NoErr == [type |-> "none", detail |-> Undef]
Err(type, detail) == [type |-> type, detail |-> detail]
NoReq == [m |-> "none", ep |-> "none", id |-> NoId, data |-> NoData]
Req(m, ep, id, data) == [m |-> m, ep |-> ep, id |-> id, data |-> data]
NoResult == [kind |-> "none", code |-> "", op |-> "", cause |-> NoErr, data |-> NoData]
NoCur == [id |-> NoId, space |-> [key |-> Undef], version |-> [number |-> 0],
          title |-> Undef, body |-> Undef]

IdleCall ==
  [via |-> "none", name |-> "", op |-> "", args |-> NoArgs, pc |-> "idle",
   req |-> NoReq, seen |-> Undef, cur |-> NoCur, items |-> <<>>, pending |-> {},
   failed |-> {}, startedAt |-> 0, result |-> NoResult]

NoPrev == [name |-> "", key |-> Undef, kind |-> "none", nreq |-> 0, startedAt |-> 0,
           expiry |-> 0]

\* What a step of a call yields: the call's next state and the requests it issues.
Out(c, reqs) == [call |-> c, reqs |-> reqs]

\* return <data> from the adapter; the handler serializes it into the tool result
Return(c, d) ==
  Out([c EXCEPT !.pc = "done", !.req = NoReq,
                !.result = [kind |-> "ok", code |-> "", op |-> c.name,
                            cause |-> NoErr, data |-> d]], <<>>)

\* a handler without its catch block: the error leaves as it was thrown
ThrowUnwrapped(c, e) ==
  Out([c EXCEPT !.pc = "done", !.req = NoReq,
                !.result = [kind |-> "error", code |-> "Error", op |-> "",
                            cause |-> e, data |-> NoData]], <<>>)

\* throw <e>: a tool call's catch block rethrows it as McpError(InternalError,
\* "Error executing <name>: <message>"); a direct adapter call rejects with e.
Throw(c, e) ==
  Out([c EXCEPT !.pc = "done", !.req = NoReq,
                !.result = [kind |-> "error",
                            code |-> IF c.via = "tool" THEN "InternalError" ELSE "Error",
                            op |-> c.name, cause |-> e, data |-> NoData]], <<>>)

\* await axios / this.client: the request goes out, the call waits at pc
Issue(c, pc, req) == Out([c EXCEPT !.pc = pc, !.req = req], <<req>>)

\* ---------------------------------------------------------- space cache
\* an expiry test that still accepts an entry at its expiry time
isSpaceCacheValidInclusive(spaceKey) ==
  spaceKey \in DOMAIN spaceCacheExpiry /\ now <= spaceCacheExpiry[spaceKey]

isSpaceCacheValid(spaceKey) ==
  spaceKey \in DOMAIN spaceCacheExpiry /\ now < spaceCacheExpiry[spaceKey]

\* a cacheSpace that files the descriptor under its identifier
cacheSpaceInById(c, space) ==
  [k \in DOMAIN c \cup {space.id} |-> IF k = space.id THEN space ELSE c[k]]

\* cacheSpace applied to maps c (descriptors) and e (expiries)
cacheSpaceIn(c, space) ==
  [k \in DOMAIN c \cup {space.key} |-> IF k = space.key THEN space ELSE c[k]]
cacheExpiryIn(e, space) ==
  [k \in DOMAIN e \cup {space.key} |-> IF k = space.key THEN now + CACHE_TTL ELSE e[k]]

RECURSIVE cacheAll(_, _)
cacheAll(c, spaces) ==
  IF spaces = <<>> THEN c ELSE cacheAll(cacheSpaceIn(c, Head(spaces)), Tail(spaces))
RECURSIVE expireAll(_, _)
expireAll(e, spaces) ==
  IF spaces = <<>> THEN e ELSE expireAll(cacheExpiryIn(e, Head(spaces)), Tail(spaces))

\* ------------------------------------------------- adapter: entry points
\* Each operator is the synchronous prefix of the method: up to its first
\* remote request, or to its return or throw.

ExpandOf(bodyFormat) ==
  IF Falsy(bodyFormat) THEN "none"
  ELSE IF bodyFormat = "view" THEN "body.view" ELSE "body.storage"

\* a search text that closes its own quotes
Injection == "x\" OR space = \"SECRET"

\* a text as the pieces a CQL reader takes it in: a double quote in the text
\* is a double quote of the query, and what follows it is read as query
CqlTokens(text) ==
  IF text = Injection THEN <<"x", "\"", "OR", "space", "=", "\"", "SECRET">>
  ELSE <<text>>

\* "${s}" inside a CQL template string: s goes in as it is
Quoted(s) == <<"\"">> \o CqlTokens(s) \o <<"\"">>

JoinAnd(conds) ==
  IF Len(conds) = 1 THEN conds[1] ELSE conds[1] \o <<"AND">> \o conds[2]

RECURSIVE JoinOrSpaces(_)
JoinOrSpaces(keys) ==
  IF Len(keys) = 1 THEN <<"space", "=">> \o Quoted(keys[1])
  ELSE <<"space", "=">> \o Quoted(keys[1]) \o <<"OR">> \o JoinOrSpaces(Tail(keys))

searchConditions(query, title) ==
  LET q == IF Falsy(query) THEN <<>> ELSE << <<"text", "~">> \o Quoted(query) >>
      t == IF Falsy(title) THEN <<>> ELSE << <<"title", "~">> \o Quoted(title) >>
  IN IF q \o t = <<>> THEN << <<"type", "=", "page">> >> ELSE q \o t

\* a searchContent that restricts the query only when a space key is given
searchContentUnrestricted(c) ==
  LET a == c.args
      searchQuery == JoinAnd(searchConditions(a.query, a.title))
  IN IF ~Falsy(a.spaceKey)
     THEN IF ~validateSpaceAccess(a.spaceKey, AllowedSpaces)
          THEN Throw(c, Err("denied", a.spaceKey))
          ELSE Issue(c, "search", Req("GET", "search", NoId,
                 [cql |-> <<"space", "=">> \o Quoted(a.spaceKey) \o <<"AND">> \o searchQuery,
                  expand |-> <<"version", "space">>]))
     ELSE Issue(c, "search", Req("GET", "search", NoId,
                 [cql |-> searchQuery, expand |-> <<"version", "space">>]))

searchContent(c) ==
  LET a == c.args
      searchQuery == JoinAnd(searchConditions(a.query, a.title))
      expand == <<"version", "space">> \o
                (IF Falsy(a.bodyFormat) THEN <<>> ELSE <<ExpandOf(a.bodyFormat)>>)
  IN IF ~Falsy(a.spaceKey)
     THEN IF ~validateSpaceAccess(a.spaceKey, AllowedSpaces)
          THEN Throw(c, Err("denied", a.spaceKey))
          ELSE Issue(c, "search", Req("GET", "search", NoId,
                 [cql |-> <<"space", "=">> \o Quoted(a.spaceKey) \o <<"AND">> \o searchQuery,
                  expand |-> expand]))
     ELSE Issue(c, "search", Req("GET", "search", NoId,
                 [cql |-> <<"(">> \o JoinOrSpaces(AllowedSpaces) \o <<")", "AND">>
                          \o searchQuery,
                  expand |-> expand]))

getPage(c, pageId, bodyFormat) ==
  Issue(c, "getPage", Req("GET", "content", pageId,
          [expand |-> <<"space", "version">> \o
                      (IF Falsy(bodyFormat) THEN <<>> ELSE <<ExpandOf(bodyFormat)>>)]))

listSpaces(c, limit, cursor) ==
  Issue(c, "listSpaces", Req("GET", "spaces", NoId, [limit |-> limit, cursor |-> cursor]))

\* a createPage that posts whatever identifier the descriptor carries
createPageWithAnyId(c, space) ==
  Issue(c, "post", Req("POST", "pages", NoId,
          [spaceId |-> space.id, title |-> c.args.title, content |-> c.args.content,
           parentId |-> c.args.parentId]))

\* createPage from the point where getSpaceByKey has returned <space>
createPageWith(c, space) ==
  LET a == c.args IN
  IF Falsy(space.id)
  THEN Throw(c, Err("no_space_id", a.spaceKey))
  ELSE Issue(c, "post", Req("POST", "pages", NoId,
         [spaceId |-> space.id, title |-> a.title, content |-> a.content,
          parentId |-> a.parentId]))

\* the caller of getSpaceByKey continues with the descriptor it returned
spaceFound(c, space) ==
  IF c.op = "createPage" THEN createPageWith(c, space) ELSE Return(c, space)

getSpaceByKey(c, spaceKey) ==
  IF ~validateSpaceAccess(spaceKey, AllowedSpaces)
  THEN Throw(c, Err("denied", spaceKey))
  ELSE IF isSpaceCacheValid(spaceKey) /\ spaceKey \in DOMAIN spaceCache
       THEN spaceFound(c, spaceCache[spaceKey])
       ELSE listSpaces(c, 100, 0)

\* a createPage that resolves the space without validating the key anywhere
createPageUnchecked(c) ==
  IF isSpaceCacheValid(c.args.spaceKey) /\ c.args.spaceKey \in DOMAIN spaceCache
  THEN spaceFound(c, spaceCache[c.args.spaceKey])
  ELSE listSpaces(c, 100, 0)

createPage(c) ==
  IF ~validateSpaceAccess(c.args.spaceKey, AllowedSpaces)
  THEN Throw(c, Err("denied", c.args.spaceKey))
  ELSE getSpaceByKey(c, c.args.spaceKey)

\* a getSpaceById that serves cache entries whatever their expiry
getSpaceByIdAnyEntry(c) ==
  LET hits == {k \in DOMAIN spaceCache : spaceCache[k].id = c.args.spaceId}
  IN IF hits # {}
     THEN Return(c, spaceCache[CHOOSE k \in hits : TRUE])
     ELSE Issue(c, "getSpace", Req("GET", "space", NoId, [spaceId |-> c.args.spaceId]))

getSpaceById(c) ==
  LET hits == {k \in DOMAIN spaceCache :
                 spaceCache[k].id = c.args.spaceId /\ isSpaceCacheValid(k)}
  IN IF hits # {}
     THEN Return(c, spaceCache[CHOOSE k \in hits : TRUE])
     ELSE Issue(c, "getSpace", Req("GET", "space", NoId, [spaceId |-> c.args.spaceId]))

\* a getSpaceById that returns and caches whatever space the remote answered
getSpaceByIdAfterResponseUnchecked(c, data) == Return(c, data)

\* getSpaceById from its response on (the cache write is in the action)
getSpaceByIdAfterResponse(c, data) ==
  IF ~validateSpaceAccess(data.key, AllowedSpaces)
  THEN Throw(c, Err("denied", data.key))
  ELSE Return(c, data)

\* a getSpaceContent that forgot its access check
getSpaceContentUnchecked(c) ==
  Issue(c, "listPages", Req("GET", "pages", NoId, [spaceKey |-> c.args.spaceKey]))

getSpaceContent(c) ==
  IF ~validateSpaceAccess(c.args.spaceKey, AllowedSpaces)
  THEN Throw(c, Err("denied", c.args.spaceKey))
  ELSE Issue(c, "listPages", Req("GET", "pages", NoId, [spaceKey |-> c.args.spaceKey]))

\* updatePage, deletePage, movePage and getPageChildren all begin with getPage(pageId)
AdapterOps ==
  {"searchContent", "getPage", "createPage", "updatePage", "deletePage", "movePage",
   "listSpaces", "getSpaceById", "getSpaceByKey", "getSpaceContent", "getPageChildren"}

Invoke(c0, op) ==
  LET c == [c0 EXCEPT !.op = op] IN
  CASE op = "searchContent" -> searchContent(c)
    [] op = "getPage" -> getPage(c, c.args.pageId, c.args.bodyFormat)
    [] op = "createPage" -> createPage(c)
    [] op \in {"updatePage", "deletePage", "movePage", "getPageChildren"} ->
         getPage(c, c.args.pageId, Undef)
    [] op = "listSpaces" -> listSpaces(c, 50, c.args.cursor)
    [] op = "getSpaceById" -> getSpaceById(c)
    [] op = "getSpaceByKey" -> getSpaceByKey(c, c.args.spaceKey)
    [] op = "getSpaceContent" -> getSpaceContent(c)

\* ------------------------------------------- adapter: after a response
PageData(id, bodyAsked) ==
  [id |-> id, space |-> [key |-> pages[id].space],
   version |-> [number |-> pages[id].version], title |-> pages[id].title,
   body |-> IF bodyAsked THEN "body" ELSE Undef]

\* a response whose space expansion is missing
WithoutSpace(data) == [data EXCEPT !.space = [key |-> Undef]]

\* an updatePage that submits the version it has just fetched
updatePageAfterGetRefetched(c) ==
  LET a == c.args IN
  IF ~validateSpaceAccess(c.cur.space.key, AllowedSpaces)
  THEN Throw(c, Err("denied", c.cur.space.key))
  ELSE Issue(c, "put", Req("PUT", "pages", a.pageId,
         [version |-> c.cur.version.number, title |-> a.title, content |-> a.content,
          space |-> Undef, parent |-> NoId]))

updatePageAfterGet(c) ==
  LET a == c.args IN
  IF Falsy(c.cur.space.key) THEN Throw(c, Err("nospace", Undef))
  ELSE IF ~validateSpaceAccess(c.cur.space.key, AllowedSpaces)
  THEN Throw(c, Err("denied", c.cur.space.key))
  ELSE Issue(c, "put", Req("PUT", "pages", a.pageId,
         [version |-> a.version, title |-> a.title, content |-> a.content,
          space |-> Undef, parent |-> NoId]))

deletePageAfterGet(c) ==
  IF Falsy(c.cur.space.key) THEN Throw(c, Err("nospace", Undef))
  ELSE IF ~validateSpaceAccess(c.cur.space.key, AllowedSpaces)
  THEN Throw(c, Err("denied", c.cur.space.key))
  ELSE Issue(c, "delete", Req("DELETE", "pages", c.args.pageId, NoData))

\* a movePage that validates the source space only
movePageAfterGetSourceOnly(c) ==
  LET a == c.args IN
  IF ~validateSpaceAccess(c.cur.space.key, AllowedSpaces)
  THEN Throw(c, Err("denied_source", c.cur.space.key))
  ELSE Issue(c, "put", Req("PUT", "pages", a.pageId,
         [version |-> c.cur.version.number, title |-> c.cur.title, content |-> Undef,
          space |-> a.targetSpaceKey, parent |-> a.parentId]))

\* a movePage that submits the first version and no title
movePageAfterGetStale(c) ==
  LET a == c.args IN
  IF ~validateSpaceAccess(c.cur.space.key, AllowedSpaces)
  THEN Throw(c, Err("denied_source", c.cur.space.key))
  ELSE IF ~validateSpaceAccess(a.targetSpaceKey, AllowedSpaces)
  THEN Throw(c, Err("denied_target", a.targetSpaceKey))
  ELSE Issue(c, "put", Req("PUT", "pages", a.pageId,
         [version |-> 1, title |-> a.title, content |-> Undef,
          space |-> a.targetSpaceKey, parent |-> a.parentId]))

movePageAfterGet(c) ==
  LET a == c.args IN
  IF Falsy(c.cur.space.key) THEN Throw(c, Err("nospace", Undef))
  ELSE IF ~validateSpaceAccess(c.cur.space.key, AllowedSpaces)
  THEN Throw(c, Err("denied_source", c.cur.space.key))
  ELSE IF ~validateSpaceAccess(a.targetSpaceKey, AllowedSpaces)
  THEN Throw(c, Err("denied_target", a.targetSpaceKey))
  ELSE Issue(c, "put", Req("PUT", "pages", a.pageId,
         [version |-> c.cur.version.number, title |-> c.cur.title, content |-> Undef,
          space |-> a.targetSpaceKey, parent |-> a.parentId]))

getPageChildrenAfterGet(c) ==
  IF Falsy(c.cur.space.key) THEN Throw(c, Err("nospace", Undef))
  ELSE IF ~validateSpaceAccess(c.cur.space.key, AllowedSpaces)
  THEN Throw(c, Err("denied", c.cur.space.key))
  ELSE Issue(c, "listChildren", Req("GET", "children", c.args.pageId, NoData))

\* a getPage that returns whatever the remote answered
getPageAfterResponseUnchecked(c0, data) ==
  LET c == [c0 EXCEPT !.seen = data.space.key, !.cur = data] IN
  CASE c.op = "getPage" -> Return(c, data)
    [] c.op = "updatePage" -> updatePageAfterGet(c)
    [] c.op = "deletePage" -> deletePageAfterGet(c)
    [] c.op = "movePage" -> movePageAfterGet(c)
    [] c.op = "getPageChildren" -> getPageChildrenAfterGet(c)

\* getPage, from its response on, and then its caller
\* (seen keeps response.data.space.key for the formulas below)
getPageAfterResponse(c0, data) ==
  LET c == [c0 EXCEPT !.seen = data.space.key] IN
  IF Falsy(data.space.key) THEN Throw(c, Err("nospace", Undef))
  ELSE IF ~validateSpaceAccess(data.space.key, AllowedSpaces)
  THEN Throw(c, Err("denied", data.space.key))
  ELSE LET d == [c EXCEPT !.cur = data] IN
       CASE c.op = "getPage" -> Return(d, data)
         [] c.op = "updatePage" -> updatePageAfterGet(d)
         [] c.op = "deletePage" -> deletePageAfterGet(d)
         [] c.op = "movePage" -> movePageAfterGet(d)
         [] c.op = "getPageChildren" -> getPageChildrenAfterGet(d)

FilterAllowed(results) ==
  SelectSeq(results, LAMBDA sp : validateSpaceAccess(sp.key, AllowedSpaces))

\* _links.next of a listing page: the cursor of the next page (0: no next
\* link), in a URL that is absolute or relative to _links.base
NoLink == [cursor |-> 0, absolute |-> TRUE]
Link(cursor, absolute) == [cursor |-> cursor, absolute |-> absolute]

\* a listSpaces that reports the remote count as size
listSpacesRawSize(c, results, next) ==
  LET filteredResults == FilterAllowed(results)
      match == SelectSeq(filteredResults, LAMBDA sp : sp.key = c.args.spaceKey)
  IN IF c.op = "listSpaces"
     THEN Return(c, [results |-> filteredResults, size |-> Len(results),
                     next |-> next.cursor])
     ELSE IF match # <<>> THEN spaceFound(c, match[1])
     ELSE IF next.cursor # 0 /\ ~next.absolute THEN Throw(c, Err("invalid_url", Undef))
     ELSE IF next.cursor # 0 THEN listSpaces(c, 100, next.cursor)
     ELSE Throw(c, Err("space_not_found", c.args.spaceKey))

\* listSpaces from its response on (the cache writes are in the action), then
\* the loop of getSpaceByKey when that is the caller; new URL(next) throws a
\* TypeError for a relative URL
listSpacesAfterResponse(c, results, next) ==
  LET filteredResults == FilterAllowed(results)
      match == SelectSeq(filteredResults, LAMBDA sp : sp.key = c.args.spaceKey)
  IN IF c.op = "listSpaces"
     THEN Return(c, [results |-> filteredResults, size |-> Len(filteredResults),
                     next |-> next.cursor])
     ELSE IF match # <<>> THEN spaceFound(c, match[1])
     ELSE IF next.cursor # 0 /\ ~next.absolute THEN Throw(c, Err("invalid_url", Undef))
     ELSE IF next.cursor # 0 THEN listSpaces(c, 100, next.cursor)
     ELSE Throw(c, Err("space_not_found", c.args.spaceKey))

RECURSIVE SeqOfIds(_)
SeqOfIds(S) ==
  IF S = {} THEN <<>>
  ELSE LET m == CHOOSE x \in S : \A y \in S : x <= y IN <<m>> \o SeqOfIds(S \ {m})

Items(ids) == [i \in 1..Len(ids) |-> [id |-> ids[i], title |-> pages[ids[i]].title,
                                      body |-> Undef]]

\* an enrichment that fetches bodies whether or not a format was asked for
enhanceWithBodiesAlways(c, results) ==
  IF Len(results) > 0
  THEN Out([c EXCEPT !.pc = "fanout", !.req = NoReq, !.items = results,
                     !.pending = 1..Len(results)],
           [i \in 1..Len(results) |->
              Req("GET", "content", results[i].id,
                  [expand |-> <<ExpandOf(c.args.bodyFormat), "version", "space">>])])
  ELSE Return(c, [results |-> results, size |-> Len(results)])

\* getSpaceContent / getPageChildren from the listing's response on
enhanceWithBodies(c, results) ==
  IF ~Falsy(c.args.bodyFormat) /\ Len(results) > 0
  THEN Out([c EXCEPT !.pc = "fanout", !.req = NoReq, !.items = results,
                     !.pending = 1..Len(results)],
           [i \in 1..Len(results) |->
              Req("GET", "content", results[i].id,
                  [expand |-> <<ExpandOf(c.args.bodyFormat), "version", "space">>])])
  ELSE Return(c, [results |-> results, size |-> Len(results)])

\* a fan-out whose failed fetch rejects Promise.all
bodyFetchedRejecting(c, i, ok) ==
  IF ok
  THEN LET d == [c EXCEPT !.items[i].body = "body", !.pending = @ \ {i}]
       IN IF d.pending = {}
          THEN Return(d, [results |-> d.items, size |-> Len(d.items)])
          ELSE Out(d, <<>>)
  ELSE Throw([c EXCEPT !.failed = @ \cup {i}], Err("upstream", "500"))

\* the map callback of the fan-out for item i, its fetch having answered with a
\* body (ok) or failed; when the last one is through, Promise.all resolves and
\* the method returns
\* (failed keeps the items whose fetch failed for the formulas below)
bodyFetched(c, i, ok) ==
  LET d == [c EXCEPT !.items[i].body = IF ok THEN "body" ELSE @,
                     !.pending = @ \ {i},
                     !.failed = IF ok THEN @ ELSE @ \cup {i}]
  IN IF d.pending = {}
     THEN Return(d, [results |-> d.items, size |-> Len(d.items)])
     ELSE Out(d, <<>>)

\* -------------------------------------------------------------- logger.ts
\* JSON values: a string, or an object as the sequence of its fields.  An
\* array is the object of its indices, which is how for..in walks it.  A name
\* is the sequence of its characters.
Undefined == [t |-> "undefined", s |-> "", f |-> <<>>]
Str(s) == [t |-> "string", s |-> s, f |-> <<>>]
Obj(fields) == [t |-> "object", s |-> "", f |-> fields]
Field(k, v) == [k |-> k, v |-> v]
Arr(elems) == [t |-> "object", s |-> "",
               f |-> [i \in 1..Len(elems) |-> Field(<<ToString(i - 1)>>, elems[i])]]

sensitiveKeys ==
  << <<"p", "a", "s", "s", "w", "o", "r", "d">>,
     <<"t", "o", "k", "e", "n">>,
     <<"a", "u", "t", "h", "o", "r", "i", "z", "a", "t", "i", "o", "n">>,
     <<"a", "u", "t", "h">>,
     <<"k", "e", "y">>,
     <<"s", "e", "c", "r", "e", "t">> >>

isSensitive(key) ==
  \E i \in 1..Len(sensitiveKeys) : includes(toLowerCase(key), sensitiveKeys[i])

REDACTED == Str("[REDACTED]")

RECURSIVE removeSensitiveFields(_)
removeSensitiveFields(obj) ==
  IF obj.t # "object" THEN obj
  ELSE [obj EXCEPT !.f =
          [i \in 1..Len(obj.f) |->
             IF isSensitive(obj.f[i].k) THEN Field(obj.f[i].k, REDACTED)
             ELSE IF obj.f[i].v.t = "object"
                  THEN Field(obj.f[i].k, removeSensitiveFields(obj.f[i].v))
                  ELSE obj.f[i]]]

\* JSON.stringify: a field whose value is undefined is left out
RECURSIVE stringify(_)
stringify(v) ==
  IF v.t # "object" THEN v
  ELSE LET kept == SelectSeq(v.f, LAMBDA fl : fl.v.t # "undefined")
       IN [v EXCEPT !.f = [i \in 1..Len(kept) |-> Field(kept[i].k, stringify(kept[i].v))]]

falsy(data) == data.t = "undefined" \/ (data.t = "string" /\ data.s = "")

\* JSON.parse(JSON.stringify(data)), then removeSensitiveFields
sanitizeData(data) ==
  IF falsy(data) THEN data ELSE removeSensitiveFields(stringify(data))

Chars(w) ==
  CASE w = "type" -> <<"t", "y", "p", "e">>
    [] w = "method" -> <<"m", "e", "t", "h", "o", "d">>
    [] w = "url" -> <<"u", "r", "l">>
    [] w = "params" -> <<"p", "a", "r", "a", "m", "s">>
    [] w = "data" -> <<"d", "a", "t", "a">>
    [] w = "status" -> <<"s", "t", "a", "t", "u", "s">>
    [] w = "error" -> <<"e", "r", "r", "o", "r">>
    [] w = "message" -> <<"m", "e", "s", "s", "a", "g", "e">>
    [] w = "title" -> <<"t", "i", "t", "l", "e">>
    [] w = "limit" -> <<"l", "i", "m", "i", "t">>
    [] w = "results" -> <<"r", "e", "s", "u", "l", "t", "s">>
    [] w = "apiToken" -> <<"a", "p", "i", "T", "o", "k", "e", "n">>
    [] w = "APITOKEN" -> <<"A", "P", "I", "T", "O", "K", "E", "N">>
    [] w = "space-key" -> <<"s", "p", "a", "c", "e", "-", "k", "e", "y">>

logRequestEntry(method, url, params, data) ==
  stringify(Obj(<<Field(Chars("type"), Str("REQUEST")),
                  Field(Chars("method"), Str(method)),
                  Field(Chars("url"), Str(url)),
                  Field(Chars("params"), IF falsy(params) THEN Obj(<<>>) ELSE params),
                  Field(Chars("data"), IF falsy(data) THEN Undefined
                                       ELSE sanitizeData(data))>>))

logResponseEntry(method, url, status, data) ==
  stringify(Obj(<<Field(Chars("type"), Str("RESPONSE")),
                  Field(Chars("method"), Str(method)),
                  Field(Chars("url"), Str(url)),
                  Field(Chars("status"), Str(status)),
                  Field(Chars("data"), IF falsy(data) THEN Undefined
                                       ELSE sanitizeData(data))>>))

logErrorEntry(method, url, message, status, data) ==
  stringify(Obj(<<Field(Chars("type"), Str("ERROR")),
                  Field(Chars("method"), Str(method)),
                  Field(Chars("url"), Str(url)),
                  Field(Chars("error"),
                        Obj(<<Field(Chars("message"), Str(message)),
                              Field(Chars("status"), Str(status)),
                              Field(Chars("data"), IF falsy(data) THEN Undefined
                                                   ELSE sanitizeData(data))>>))>>))

\* maxSizeMB * 1024 * 1024, in megabytes
maxSizeBytes == 2

\* the size of a line in megabytes: what an entry says it weighs, one otherwise
lineBytes(line) == IF "bytes" \in DOMAIN line THEN line.bytes ELSE 1

\* stats.size
RECURSIVE fileSize(_)
fileSize(file) == IF file = <<>> THEN 0 ELSE lineBytes(Head(file)) + fileSize(Tail(file))

\* a trim that keeps the trailing half of the lines, rounded down
trimmedContentHalf(content) ==
  SubSeq(content, Len(content) - (Len(content) \div 2) + 1, Len(content))

\* content.split('\n') yields the lines and the empty string after the last
\* newline; the last floor(length / 2) of those are joined and written back.
trimmedContent(content) ==
  LET lines == Len(content) + 1
      keepLines == lines \div 2
  IN SubSeq(content, Len(content) - (keepLines - 1) + 1, Len(content))

\* checkAndTrimLogFile with no other write in between
checkAndTrimLogFile(file) ==
  IF fileSize(file) > maxSizeBytes THEN trimmedContent(file) ELSE file

writeLog(file, entry) == Append(checkAndTrimLogFile(file), entry)

\* an invocation of writeLog between its awaits: its entry and what it read
Writers == {"w1", "w2"}
NoEntry == [id |-> 0, bytes |-> 0]
IdleWriter == [pc |-> "idle", entry |-> NoEntry, content |-> <<>>]

\* ------------------------------------------------------- tool dispatcher
\* The switch of the CallTool request handler: the adapter method each case calls.
Route(name) ==
  CASE name = "search_confluence" -> "searchContent"
    [] name = "get_page" -> "getPage"
    [] name = "create_page" -> "createPage"
    [] name = "update_page" -> "updatePage"
    [] name = "move_page" -> "movePage"
    [] name = "list_spaces" -> "listSpaces"
    [] name = "get_space_by_id" -> "getSpaceById"
    [] name = "get_space_by_key" -> "getSpaceByKey"
    [] name = "get_space_content" -> "getSpaceContent"
    [] name = "get_page_children" -> "getPageChildren"
    [] OTHER -> "default"

\* a handler whose search case does not check query and title
HandleCallToolUnvalidated(c) ==
  IF Route(c.name) = "default"
  THEN Throw(c, Err("unknown_tool", c.name))
  ELSE Invoke(c, Route(c.name))

HandleCallTool(c) ==
  LET a == c.args IN
  IF Route(c.name) = "default"
  THEN Throw(c, Err("unknown_tool", c.name))
  ELSE IF c.name = "search_confluence" /\ Falsy(a.query) /\ Falsy(a.title)
  THEN Throw(c, Err("validation", "query_or_title"))
  ELSE Invoke(c, Route(c.name))

\* The tools of the documented tool surface, and one no document names.
ToolNames ==
  {"search_confluence", "get_page", "create_page", "update_page", "delete_page",
   "move_page", "list_spaces", "get_space_by_id", "get_space_by_key",
   "get_space_content", "get_page_children", "frobnicate"}

\* ------------------------------------------------------ argument domains
KeyArgs == {Undef, "DEV", "OPS", "SECRET"}
PageArgs == {NoId} \cup PageIds
VersionArgs == {NoVersion, 1, 2}
FormatArgs == {Undef, "storage"}

ArgsOf(name) ==
  CASE name = "search_confluence" ->
         {[NoArgs EXCEPT !.query = q, !.title = t, !.spaceKey = k] :
            q \in {Undef, "", "q", Injection}, t \in {Undef, "t"},
            k \in {Undef, "DEV", "SECRET"}}
    [] name \in {"get_page", "get_page_children"} ->
         {[NoArgs EXCEPT !.pageId = p, !.bodyFormat = f] : p \in PageArgs, f \in FormatArgs}
    [] name = "create_page" ->
         {[NoArgs EXCEPT !.spaceKey = k, !.title = t, !.content = b, !.parentId = p] :
            k \in KeyArgs, t \in {Undef, "t"}, b \in {Undef, "c"}, p \in {NoId, 1}}
    [] name = "update_page" ->
         {[NoArgs EXCEPT !.pageId = p, !.title = t, !.content = b, !.version = v] :
            p \in PageArgs, t \in {Undef, "t"}, b \in {Undef, "c"}, v \in VersionArgs}
    [] name = "delete_page" ->
         {[NoArgs EXCEPT !.pageId = p] : p \in PageArgs}
    [] name = "move_page" ->
         {[NoArgs EXCEPT !.pageId = p, !.targetSpaceKey = k, !.parentId = q] :
            p \in PageArgs, k \in KeyArgs, q \in {NoId, 1}}
    [] name = "list_spaces" ->
         {[NoArgs EXCEPT !.cursor = n] : n \in {0, 2}}
    [] name = "get_space_by_id" ->
         {[NoArgs EXCEPT !.spaceId = i] : i \in {Undef, "s1", "s2", "s9"}}
    [] name = "get_space_by_key" ->
         {[NoArgs EXCEPT !.spaceKey = k] : k \in KeyArgs}
    [] name = "get_space_content" ->
         {[NoArgs EXCEPT !.spaceKey = k, !.bodyFormat = f] : k \in KeyArgs, f \in FormatArgs}
    [] OTHER -> {NoArgs}

\* ----------------------------------------------------------------- Init
NoAccess == [asked |-> FALSE, spaceKey |-> <<>>, allowedSpaces |-> <<>>, result |-> FALSE]

\* the environment the running server was started with
RunningEnv ==
  [n \in {"CONFLUENCE_BASE_URL", "CONFLUENCE_USERNAME", "CONFLUENCE_API_TOKEN",
          "ALLOWED_SPACES"} |->
     CASE n = "CONFLUENCE_BASE_URL" -> <<"u", "/">>
       [] n = "CONFLUENCE_USERNAME" -> <<"m", "e">>
       [] n = "CONFLUENCE_API_TOKEN" -> <<"s", "3">>
       [] n = "ALLOWED_SPACES" -> <<"D", "E", "V", ",", "O", "P", "S">>]

\* the remote as the server finds it, the adapter and the logger as constructed
InitState ==
  /\ now = 0
  /\ listing \in RemoteListings
  /\ pages = [p \in PageIds |->
               IF p = 1 THEN MkPage("DEV", 2, "a", NoId)
               ELSE IF p = 2 THEN MkPage("SECRET", 1, "a", NoId)
               ELSE IF p = 3 THEN MkPage("DEV", 1, "b", 1)
               ELSE NoPage]
  /\ nextId = 4
  /\ spaceCache = <<>>
  /\ spaceCacheExpiry = <<>>
  /\ call = IdleCall
  /\ http = <<>>
  /\ prev = NoPrev
  /\ ncalls = 0
  /\ envMoves = 0
  /\ logFile = <<>>
  /\ access = NoAccess
  /\ stdout = <<>>
  /\ stderr = <<>>
  /\ writers = [w \in Writers |-> IdleWriter]
  /\ nwrites = 0

Init ==
  /\ InitState
  /\ env = RunningEnv
  /\ config = getConfig(env)

\* ----------------------------------------------------- the interceptors
\* The requests sent through this.client pass the interceptors; searchContent,
\* getPage and the per-item body fetches call axios directly.
ViaClient(req) == req.ep \in {"pages", "spaces", "space", "children"}

\* the remote answered the request in flight with a failure status
Rejected(out) ==
  out.call.result.kind = "error" /\ out.call.result.cause.type = "upstream"

\* request interceptor: logRequest for every request the step issues
RECURSIVE logIssued(_, _)
logIssued(file, reqs) ==
  IF reqs = <<>> THEN file
  ELSE logIssued(IF ViaClient(Head(reqs))
                 THEN writeLog(file, logRequestEntry(Head(reqs).m, Head(reqs).ep,
                                                     Undefined, Undefined))
                 ELSE file,
                 Tail(reqs))

\* response interceptor: logResponse, or logError when the request failed
logAnswered(file, req, out) ==
  IF ~ViaClient(req) THEN file
  ELSE IF Rejected(out)
  THEN writeLog(file, logErrorEntry(req.m, req.ep, out.call.result.cause.detail,
                                    out.call.result.cause.detail, Undefined))
  ELSE writeLog(file, logResponseEntry(req.m, req.ep, "200", Undefined))

\* console.log of the interceptors under config.debug, and the transport
\* writing the tool call's response
stdoutOf(req, out) ==
  (IF config.debug /\ ViaClient(req) /\ ~Rejected(out)
   THEN <<"Confluence API Response">> ELSE <<>>)
  \o (IF config.debug
      THEN [i \in 1..Len(SelectSeq(out.reqs, ViaClient)) |-> "Confluence API Request"]
      ELSE <<>>)
  \o (IF out.call.pc = "done" /\ out.call.via = "tool" THEN <<"response">> ELSE <<>>)

\* console.error and console.warn under config.debug
stderrOf(c, out) ==
  IF ~config.debug THEN <<>>
  ELSE (IF ViaClient(c.req) /\ Rejected(out) THEN <<"Confluence API Error">> ELSE <<>>)
       \o (IF out.call.failed # c.failed
            THEN <<"Failed to retrieve body content">> ELSE <<>>)
       \o (IF out.call.pc = "done" /\ out.call.via = "tool"
               /\ out.call.result.kind = "error"
            THEN <<"Tool execution error">> ELSE <<>>)

\* -------------------------------------------------------------- actions
Summary ==
  IF call.pc = "done" /\ call.name = "get_space_by_key"
  THEN [name |-> call.name, key |-> call.args.spaceKey, kind |-> call.result.kind,
        nreq |-> Len(http), startedAt |-> call.startedAt,
        expiry |-> IF call.args.spaceKey \in DOMAIN spaceCacheExpiry
                   THEN spaceCacheExpiry[call.args.spaceKey] ELSE 0]
  ELSE NoPrev

Begin(out, budget) ==
  /\ call.pc \in {"idle", "done"}
  /\ ncalls < budget
  /\ ncalls' = ncalls + 1
  /\ prev' = Summary
  /\ call' = out.call
  /\ http' = out.reqs
  /\ logFile' = logIssued(logFile, out.reqs)
  /\ stdout' = stdoutOf(NoReq, out)
  /\ stderr' = stderrOf(IdleCall, out)
  /\ UNCHANGED <<now, remoteVars, cacheVars, envMoves, configVars, writerVars>>

\* A tools/call request arrives at the CallTool request handler.
CallTool ==
  \E name \in ToolNames : \E args \in ArgsOf(name) :
    /\ name = "create_page" => nextId <= MaxPages
    /\ Begin(HandleCallTool([IdleCall EXCEPT !.via = "tool", !.name = name,
                                             !.args = args, !.startedAt = now]),
             MaxCalls)

\* The same handler, serving an agent that only looks spaces up.
SpaceTools == {"list_spaces", "get_space_by_id", "get_space_by_key"}

CallSpaceTool ==
  \E name \in SpaceTools : \E args \in ArgsOf(name) :
    Begin(HandleCallTool([IdleCall EXCEPT !.via = "tool", !.name = name,
                                          !.args = args, !.startedAt = now]),
          MaxLookups)

\* deletePage is exported with the class but no case of the handler calls it:
\* it runs only when the adapter is used directly.
CallDeletePage ==
  \E p \in PageArgs :
    Begin(Invoke([IdleCall EXCEPT !.via = "adapter", !.name = "deletePage",
                                  !.args = [NoArgs EXCEPT !.pageId = p],
                                  !.startedAt = now], "deletePage"),
          MaxCalls)

\* the call in flight resumes with the answer to its request
Resume(out) ==
  /\ call' = out.call
  /\ http' = http \o out.reqs
  /\ logFile' = logIssued(logAnswered(logFile, call.req, out), out.reqs)
  /\ stdout' = stdout \o stdoutOf(call.req, out)
  /\ stderr' = stderr \o stderrOf(call, out)
  /\ UNCHANGED <<now, prev, ncalls, configVars, writerVars>>

Step(out) ==
  /\ Resume(out)
  /\ UNCHANGED envMoves

Found(id) == id \in PageIds /\ pages[id].exists

\* GET /wiki/rest/api/content/{id} answers getPage
RespGetPage ==
  /\ call.pc = "getPage"
  /\ \E data \in IF Found(call.req.id)
                  THEN LET d == PageData(call.req.id, Len(call.req.data.expand) > 2)
                       IN {d, WithoutSpace(d)}
                  ELSE {NoData} :
       Step(IF Found(call.req.id)
            THEN getPageAfterResponse(call, data)
            ELSE Throw(call, Err("upstream", "404")))
  /\ UNCHANGED <<remoteVars, cacheVars>>

\* PUT /pages/{id} is applied by the remote system (updatePage, movePage)
RespPut ==
  /\ call.pc = "put"
  /\ LET r == call.req
         d == r.data
         p == pages[r.id]
         np == [p EXCEPT !.version = p.version + 1, !.title = d.title,
                         !.space = IF d.space = Undef THEN p.space ELSE d.space,
                         !.parent = IF d.parent = NoId THEN p.parent ELSE d.parent]
         reject == IF ~Found(r.id) THEN "404"
                   ELSE IF Falsy(d.title) \/ d.version = NoVersion THEN "400"
                   ELSE IF d.space # Undef /\
                           ~\E i \in 1..Len(listing) : \E j \in 1..Len(listing[i]) :
                               listing[i][j].key = d.space THEN "404"
                   ELSE IF d.version # p.version THEN "409"
                   ELSE "none"
     IN IF reject = "none"
        THEN /\ pages' = [pages EXCEPT ![r.id] = np]
             /\ Step(Return(call, [id |-> r.id, version |-> [number |-> np.version],
                                    title |-> np.title]))
        ELSE /\ pages' = pages
             /\ Step(Throw(call, Err("upstream", reject)))
  /\ UNCHANGED <<listing, nextId, cacheVars>>

\* DELETE /pages/{id} is applied by the remote system (deletePage)
RespDelete ==
  /\ call.pc = "delete"
  /\ IF Found(call.req.id)
     THEN /\ pages' = [pages EXCEPT ![call.req.id] = NoPage]
          /\ Step(Return(call, NoData))
     ELSE /\ pages' = pages
          /\ Step(Throw(call, Err("upstream", "404")))
  /\ UNCHANGED <<listing, nextId, cacheVars>>

\* all descriptors of the remote listing, in listing order
RECURSIVE Flatten(_)
Flatten(ll) == IF ll = <<>> THEN <<>> ELSE Head(ll) \o Flatten(Tail(ll))

RemoteSpaces == Flatten(listing)
RemoteKeys == {RemoteSpaces[i].key : i \in 1..Len(RemoteSpaces)}

\* POST /pages is applied by the remote system (createPage)
RespPost ==
  /\ call.pc = "post"
  /\ LET d == call.req.data
         sp == SelectSeq(RemoteSpaces, LAMBDA x : x.id = d.spaceId)
         reject == IF sp = <<>> THEN "404"
                   ELSE IF Falsy(d.title) THEN "400"
                   ELSE IF d.parentId # NoId /\ ~Found(d.parentId) THEN "400"
                   ELSE "none"
     IN IF reject = "none"
        THEN /\ pages' = [pages EXCEPT ![nextId] = MkPage(sp[1].key, 1, d.title, d.parentId)]
             /\ nextId' = nextId + 1
             /\ Step(Return(call, [id |-> nextId, version |-> [number |-> 1],
                                    title |-> d.title, spaceId |-> d.spaceId]))
        ELSE /\ UNCHANGED <<pages, nextId>>
             /\ Step(Throw(call, Err("upstream", reject)))
  /\ UNCHANGED <<listing, cacheVars>>

\* GET /spaces answers listSpaces; the allowed spaces of the page are cached
RespListSpaces ==
  /\ call.pc = "listSpaces"
  /\ LET cursor == call.req.data.cursor
         idx == IF cursor = 0 THEN 1 ELSE cursor
     IN IF idx \in 1..Len(listing)
        THEN /\ spaceCache' = cacheAll(spaceCache, FilterAllowed(listing[idx]))
             /\ spaceCacheExpiry' = expireAll(spaceCacheExpiry, FilterAllowed(listing[idx]))
             /\ \E next \in IF idx < Len(listing)
                             THEN {Link(idx + 1, TRUE), Link(idx + 1, FALSE)}
                             ELSE {NoLink} :
                  Step(listSpacesAfterResponse(call, listing[idx], next))
        ELSE /\ UNCHANGED cacheVars
             /\ Step(Throw(call, Err("upstream", "400")))
  /\ UNCHANGED remoteVars

\* GET /spaces/{id} answers getSpaceById
RespGetSpace ==
  /\ call.pc = "getSpace"
  /\ LET sp == SelectSeq(RemoteSpaces,
                         LAMBDA x : x.id = call.req.data.spaceId /\ x.id # Undef)
     IN IF sp = <<>>
        THEN /\ UNCHANGED cacheVars
             /\ Step(Throw(call, Err("upstream", "404")))
        ELSE LET out == getSpaceByIdAfterResponse(call, sp[1])
             IN /\ IF out.call.result.kind = "ok"
                   THEN /\ spaceCache' = cacheSpaceIn(spaceCache, sp[1])
                        /\ spaceCacheExpiry' = cacheExpiryIn(spaceCacheExpiry, sp[1])
                   ELSE UNCHANGED cacheVars
                /\ Step(out)
  /\ UNCHANGED remoteVars

\* the space keys a CQL query names in space = "..." clauses
CqlSpaces(cql) ==
  {cql[i + 3] : i \in {j \in 1..(Len(cql) - 4) : cql[j] = "space" /\ cql[j + 1] = "="}}

\* the operands of the query's top-level OR (AND binds tighter): OR inside
\* brackets or inside a string literal does not split
RECURSIVE Disjuncts(_, _, _, _)
Disjuncts(tokens, depth, inString, current) ==
  IF tokens = <<>> THEN <<current>>
  ELSE LET h == Head(tokens) IN
       IF h = "\"" THEN Disjuncts(Tail(tokens), depth, ~inString, Append(current, h))
       ELSE IF inString THEN Disjuncts(Tail(tokens), depth, inString, Append(current, h))
       ELSE IF h = "(" THEN Disjuncts(Tail(tokens), depth + 1, inString, Append(current, h))
       ELSE IF h = ")" THEN Disjuncts(Tail(tokens), depth - 1, inString, Append(current, h))
       ELSE IF h = "OR" /\ depth = 0
            THEN <<current>> \o Disjuncts(Tail(tokens), depth, inString, <<>>)
       ELSE Disjuncts(Tail(tokens), depth, inString, Append(current, h))

\* the spaces whose content the remote's search can return for a query: those
\* an operand of the top-level OR names, every space for an operand naming none
CqlMatchSpaces(cql) ==
  LET ds == Disjuncts(cql, 0, FALSE, <<>>)
  IN UNION {IF CqlSpaces(ds[i]) = {} THEN {pages[p].space : p \in PageIds}
            ELSE CqlSpaces(ds[i]) : i \in 1..Len(ds)}

\* GET /wiki/rest/api/search answers searchContent
RespSearch ==
  /\ call.pc = "search"
  /\ LET hits == SeqOfIds({p \in PageIds : pages[p].exists /\
                                           pages[p].space \in CqlMatchSpaces(call.req.data.cql)})
     IN Step(Return(call, [content |-> Items(hits), size |-> Len(hits)]))
  /\ UNCHANGED <<remoteVars, cacheVars>>

\* GET /pages?space-key= answers getSpaceContent
RespSpacePages ==
  /\ call.pc = "listPages"
  /\ Step(enhanceWithBodies(call,
            Items(SeqOfIds({p \in PageIds : pages[p].exists /\
                                            pages[p].space = call.req.data.spaceKey}))))
  /\ UNCHANGED <<remoteVars, cacheVars>>

\* GET /pages/{id}/children answers getPageChildren
RespChildren ==
  /\ call.pc = "listChildren"
  /\ Step(enhanceWithBodies(call,
            Items(SeqOfIds({p \in PageIds : pages[p].exists /\
                                            pages[p].parent = call.req.id}))))
  /\ UNCHANGED <<remoteVars, cacheVars>>

\* one per-item GET /wiki/rest/api/content/{id} of the fan-out completes; the
\* method returns when the last one has
RespBody ==
  /\ call.pc = "fanout"
  /\ \E i \in call.pending : \E answered \in BOOLEAN :
       Step(bodyFetched(call, i, answered /\ Found(call.items[i].id)))
  /\ UNCHANGED <<remoteVars, cacheVars>>

\* ---------------------------------------------------------- environment
Tick ==
  /\ now < MaxTime
  /\ now' = now + 1
  /\ UNCHANGED <<remoteVars, cacheVars, call, http, prev, ncalls, envMoves, logFile,
                 configVars, consoleVars, writerVars>>

\* another user of the remote system moves a page to another space while a
\* call is in flight
RemoteMove ==
  /\ envMoves < MaxEnvMoves
  /\ call.pc \notin {"idle", "done"}
  /\ \E p \in PageIds : \E k \in RemoteKeys :
       /\ pages[p].exists
       /\ pages[p].space # k
       /\ pages' = [pages EXCEPT ![p].space = k]
  /\ envMoves' = envMoves + 1
  /\ UNCHANGED <<now, listing, nextId, cacheVars, call, http, prev, ncalls, logFile,
                 configVars, consoleVars, writerVars>>

Next ==
  \/ CallTool
  \/ CallDeletePage
  \/ RespGetPage
  \/ RespPut
  \/ RespDelete
  \/ RespPost
  \/ RespListSpaces
  \/ RespGetSpace
  \/ RespSearch
  \/ RespSpacePages
  \/ RespChildren
  \/ RespBody
  \/ RemoteMove

\* Any one call, racing with another user of the remote system.
Spec == Init /\ [][Next]_vars

\* an administrator of the remote system changes its spaces between two calls
RemoteChange ==
  /\ envMoves < MaxEnvMoves
  /\ call.pc \in {"idle", "done"}
  /\ listing' \in RemoteListings \ {listing}
  /\ envMoves' = envMoves + 1
  /\ UNCHANGED <<now, pages, nextId, cacheVars, call, http, prev, ncalls, logFile,
                 configVars, consoleVars, writerVars>>

NextCache ==
  \/ CallSpaceTool
  \/ RespListSpaces
  \/ RespGetSpace
  \/ Tick
  \/ RemoteChange

\* another user of the remote system edits a page while a call is in flight:
\* the page gets its next version
RemoteEdit ==
  /\ envMoves < MaxEnvMoves
  /\ call.pc \notin {"idle", "done"}
  /\ \E p \in PageIds :
       /\ pages[p].exists
       /\ pages' = [pages EXCEPT ![p].version = @ + 1]
  /\ envMoves' = envMoves + 1
  /\ UNCHANGED <<now, listing, nextId, cacheVars, call, http, prev, ncalls, logFile,
                 configVars, consoleVars, writerVars>>

\* GET /wiki/rest/api/content/{id} answers getPage, and another user moves
\* the page before the answer has reached the adapter and the adapter's next
\* request has left it (the request interceptor awaits the logger first)
RespGetPageLate ==
  /\ call.pc = "getPage"
  /\ Found(call.req.id)
  /\ envMoves < MaxEnvMoves
  /\ \E k \in RemoteKeys :
       /\ pages[call.req.id].space # k
       /\ pages' = [pages EXCEPT ![call.req.id].space = k]
  /\ envMoves' = envMoves + 1
  /\ Resume(getPageAfterResponse(call, PageData(call.req.id,
                                                 Len(call.req.data.expand) > 2)))
  /\ UNCHANGED <<listing, nextId, cacheVars>>

\* The handler, serving an agent that rewrites and moves pages.
PageWriteTools == {"update_page", "move_page"}

CallPageWrite ==
  \E name \in PageWriteTools : \E args \in ArgsOf(name) :
    Begin(HandleCallTool([IdleCall EXCEPT !.via = "tool", !.name = name,
                                          !.args = args, !.startedAt = now]),
          MaxCalls)

NextRace ==
  \/ CallPageWrite
  \/ CallDeletePage
  \/ RespGetPage
  \/ RespGetPageLate
  \/ RespPut
  \/ RespDelete
  \/ RemoteMove
  \/ RemoteEdit

\* One write to a page, racing with the remote system's other users.
SpecRace == Init /\ [][NextRace]_vars

\* The response to the GET /spaces of another tool call in flight arrives:
\* its listSpaces caches the allowed spaces of the page.
ConcurrentListSpaces ==
  /\ \E idx \in 1..Len(listing) :
       /\ spaceCache' = cacheAll(spaceCache, FilterAllowed(listing[idx]))
       /\ spaceCacheExpiry' = expireAll(spaceCacheExpiry, FilterAllowed(listing[idx]))
  /\ cacheVars' # cacheVars
  /\ UNCHANGED <<now, remoteVars, call, http, prev, ncalls, envMoves, logFile,
                 configVars, consoleVars, writerVars>>

\* The response to the GET /spaces/{id} of another tool call in flight
\* arrives: its getSpaceById caches the space when it lets it through.
ConcurrentGetSpace ==
  /\ \E i \in 1..Len(RemoteSpaces) :
       LET out == getSpaceByIdAfterResponse(
                    [IdleCall EXCEPT !.via = "tool", !.name = "get_space_by_id",
                                     !.op = "getSpaceById", !.pc = "getSpace"],
                    RemoteSpaces[i])
       IN /\ RemoteSpaces[i].id # Undef
          /\ out.call.result.kind = "ok"
          /\ spaceCache' = cacheSpaceIn(spaceCache, RemoteSpaces[i])
          /\ spaceCacheExpiry' = cacheExpiryIn(spaceCacheExpiry, RemoteSpaces[i])
  /\ cacheVars' # cacheVars
  /\ UNCHANGED <<now, remoteVars, call, http, prev, ncalls, envMoves, logFile,
                 configVars, consoleVars, writerVars>>

NextShared ==
  \/ CallSpaceTool
  \/ RespListSpaces
  \/ RespGetSpace
  \/ ConcurrentGetSpace
  \/ ConcurrentListSpaces
  \/ Tick

\* Space lookups with the cache writes of concurrent tool calls in between.
SpecShared == Init /\ [][NextShared]_vars

\* The handler, serving an agent that creates pages.
CallCreatePage ==
  \E args \in ArgsOf("create_page") :
    /\ nextId <= MaxPages
    /\ Begin(HandleCallTool([IdleCall EXCEPT !.via = "tool", !.name = "create_page",
                                             !.args = args, !.startedAt = now]),
             MaxCalls)

\* Page creation: the space lookup, then the POST.
SpecCreate == Init /\ [][CallCreatePage \/ RespListSpaces \/ RespPost]_vars

\* the server started with DEBUG=true
DebugEnv ==
  [n \in DOMAIN RunningEnv \cup {"DEBUG"} |->
     IF n = "DEBUG" THEN <<"t", "r", "u", "e">> ELSE RunningEnv[n]]

InitDebug ==
  /\ InitState
  /\ env \in {RunningEnv, DebugEnv}
  /\ config = getConfig(env)

\* Any one call, with the debug flag set or not.
SpecDebug == InitDebug /\ [][Next]_vars

\* Consecutive space lookups while the clock runs.
SpecCache == Init /\ [][NextCache]_vars

\* ----------------------------------------------------- the audit logger
\* The payloads the interceptors hand to the logger: the params of the
\* adapter's listing requests, and bodies with credentials at several depths.
Secret == Str("s3cr3t")

LoggedParams ==
  {Undefined,
   Obj(<<Field(Chars("limit"), Str("50"))>>),
   Obj(<<Field(Chars("space-key"), Str("DEV")), Field(Chars("limit"), Str("25"))>>)}

LoggedData ==
  {Undefined,
   Obj(<<Field(Chars("title"), Str("Notes")), Field(Chars("apiToken"), Secret)>>),
   Obj(<<Field(Chars("results"),
           Arr(<<Obj(<<Field(Chars("title"), Undefined),
                       Field(Chars("data"),
                             Obj(<<Field(Chars("APITOKEN"), Secret)>>))>>)>>))>>)}

logUnchanged ==
  UNCHANGED <<now, remoteVars, cacheVars, call, http, prev, ncalls, envMoves, configVars,
              consoleVars, writerVars>>

LogRequest ==
  /\ \E params \in LoggedParams : \E data \in LoggedData :
       logFile' = writeLog(logFile, logRequestEntry("GET", "/pages", params, data))
  /\ logUnchanged

LogResponse ==
  /\ \E data \in LoggedData :
       logFile' = writeLog(logFile, logResponseEntry("GET", "/pages", "200", data))
  /\ logUnchanged

LogError ==
  /\ \E data \in LoggedData :
       logFile' = writeLog(logFile, logErrorEntry("PUT", "/pages/1", "conflict", "409", data))
  /\ logUnchanged

NextLog ==
  \/ LogRequest
  \/ LogResponse
  \/ LogError

\* The logger on its own, called as the interceptors call it.
SpecLog == Init /\ [][NextLog]_vars

\* ------------------------------------------ the logger's writes in flight
trimUnchanged ==
  UNCHANGED <<now, remoteVars, cacheVars, call, http, prev, ncalls, envMoves, configVars,
              consoleVars>>

\* a log method calls writeLog(entry): await checkAndTrimLogFile() begins
WriteLog ==
  /\ nwrites < MaxWrites
  /\ \E w \in Writers : \E bytes \in {1, 2} :
       /\ writers[w].pc \in {"idle", "done"}
       /\ writers' = [writers EXCEPT ![w] = [pc |-> "stat",
                                              entry |-> [id |-> nwrites + 1, bytes |-> bytes],
                                              content |-> <<>>]]
  /\ nwrites' = nwrites + 1
  /\ UNCHANGED logFile
  /\ trimUnchanged

\* await fs.promises.stat resolves (or rejects with ENOENT: no file yet)
StatFile ==
  /\ \E w \in Writers :
       /\ writers[w].pc = "stat"
       /\ writers' = [writers EXCEPT ![w].pc = IF fileSize(logFile) > maxSizeBytes
                                                THEN "read" ELSE "append"]
  /\ UNCHANGED <<logFile, nwrites>>
  /\ trimUnchanged

\* await fs.promises.readFile resolves
ReadFile ==
  /\ \E w \in Writers :
       /\ writers[w].pc = "read"
       /\ writers' = [writers EXCEPT ![w].pc = "write", ![w].content = logFile]
  /\ UNCHANGED <<logFile, nwrites>>
  /\ trimUnchanged

\* await fs.promises.writeFile(trimmedContent) resolves
WriteFile ==
  /\ \E w \in Writers :
       /\ writers[w].pc = "write"
       /\ logFile' = trimmedContent(writers[w].content)
       /\ writers' = [writers EXCEPT ![w].pc = "append"]
  /\ UNCHANGED nwrites
  /\ trimUnchanged

\* await fs.promises.appendFile(entry + '\n') resolves
AppendFile ==
  /\ \E w \in Writers :
       /\ writers[w].pc = "append"
       /\ logFile' = Append(logFile, writers[w].entry)
       /\ writers' = [writers EXCEPT ![w].pc = "done", ![w].content = <<>>]
  /\ UNCHANGED nwrites
  /\ trimUnchanged

NextTrim ==
  \/ WriteLog
  \/ StatFile
  \/ ReadFile
  \/ WriteFile
  \/ AppendFile

\* The logger's file operations, with the log writes of concurrent calls in flight.
SpecTrim == Init /\ [][NextTrim]_vars

\* -------------------------------------------------------------- startup
EnvNames ==
  {"CONFLUENCE_BASE_URL", "CONFLUENCE_USERNAME", "CONFLUENCE_API_TOKEN",
   "ALLOWED_SPACES", "DEBUG"}

EnvValues(n) ==
  CASE n = "CONFLUENCE_BASE_URL" -> {<<>>, <<"u">>, <<"u", "/">>}
    [] n = "CONFLUENCE_USERNAME" -> {<<>>, <<"m", "e">>}
    [] n = "CONFLUENCE_API_TOKEN" -> {<<>>, <<"s", "3">>}
    [] n = "ALLOWED_SPACES" -> {<<>>, <<"D", "E", "V", ",", "O", "P", "S">>,
                                <<" ", "D", "E", "V", " ", ",", "d", "e", "v">>}
    [] n = "DEBUG" -> {<<"t", "r", "u", "e">>, <<"f", "a", "l", "s", "e">>}

\* every environment: each variable not set, or set to one of its values
Envs ==
  UNION {{e \in [D -> UNION {EnvValues(n) : n \in EnvNames}] :
            \A n \in D : e[n] \in EnvValues(n)} : D \in SUBSET EnvNames}

\* the process before index.ts has called getConfig
InitConfig ==
  /\ InitState
  /\ env \in Envs
  /\ config = NoConfig

configUnchanged ==
  UNCHANGED <<now, remoteVars, cacheVars, call, http, prev, ncalls, envMoves, logFile,
              consoleVars, writerVars>>

\* const config = getConfig(); a throw ends the process with no config
GetConfig ==
  /\ config.status = "unloaded"
  /\ config' = getConfig(env)
  /\ UNCHANGED <<env, access>>
  /\ configUnchanged

ProbeKeys ==
  {<<>>, <<"D", "E", "V">>, <<"d", "e", "v">>, <<"D", "E", "V", " ">>, <<"O", "P", "S">>,
   <<"D", "E">>}

\* validateSpaceAccess is called with a key and the configured allowlist
ValidateSpaceAccess ==
  /\ config.status = "ok"
  /\ \E k \in ProbeKeys :
       access' = [asked |-> TRUE, spaceKey |-> k, allowedSpaces |-> config.allowedSpaces,
                  result |-> validateSpaceAccess(k, config.allowedSpaces)]
  /\ UNCHANGED <<env, config>>
  /\ configUnchanged

NextConfig ==
  \/ GetConfig
  \/ ValidateSpaceAccess

\* Startup from any environment, then allowlist checks.
SpecConfig == InitConfig /\ [][NextConfig]_vars

\* =============================================================== claims
InAllowlist(k) == k \in {AllowedSpaces[i] : i \in 1..Len(AllowedSpaces)}
Done == call.pc = "done"
Failed(types) == call.result.kind = "error" /\ call.result.cause.type \in types
DeniedTypes == {"denied", "denied_source", "denied_target"}
Methods(ms) == {i \in 1..Len(http) : http[i].m \in ms}
NoMutatingCall == Methods({"POST", "PUT", "DELETE"}) = {}

\* The call in flight is a space-scoped adapter operation on a space outside
\* the allowlist: by its key argument, by the space its page pre-fetch
\* reported, or by movePage's target.
DeniedCase ==
  \/ /\ call.op \in {"createPage", "getSpaceContent", "getSpaceByKey"}
     /\ ~InAllowlist(call.args.spaceKey)
  \/ /\ call.op = "searchContent"
     /\ call.args.spaceKey \notin {Undef, ""}
     /\ ~InAllowlist(call.args.spaceKey)
  \/ /\ call.op \in {"updatePage", "deletePage", "movePage", "getPageChildren"}
     /\ call.seen # Undef
     /\ ~InAllowlist(call.seen)
  \/ /\ call.op = "movePage"
     /\ ~InAllowlist(call.args.targetSpaceKey)

RemoteKnows(k) ==
  \E i \in 1..Len(listing) : \E j \in 1..Len(listing[i]) :
    listing[i][j].key = k /\ listing[i][j].id # Undef

C2DeniedStep ==
  (call'.name = "create_page" /\ ncalls' = ncalls + 1
     /\ ~InAllowlist(call'.args.spaceKey))
  => /\ call'.pc = "done"
     /\ call'.result.kind = "error"
     /\ call'.result.cause = Err("denied", call'.args.spaceKey)
     /\ http' = <<>>
     /\ UNCHANGED <<spaceCache, spaceCacheExpiry>>

C2DeniedState ==
  (call.name = "create_page" /\ ~InAllowlist(call.args.spaceKey))
  => Done /\ http = <<>>

C2Created ==
  (/\ Done /\ call.name = "create_page"
   /\ InAllowlist(call.args.spaceKey) /\ RemoteKnows(call.args.spaceKey)
   /\ ~Failed({"invalid_url"})
   /\ call.args.title # Undef
   /\ call.args.parentId \in PageIds => pages[call.args.parentId].exists)
  => /\ call.result.kind = "ok"
     /\ call.result.data.id = nextId - 1
     /\ call.result.data.version.number = 1
     /\ pages[call.result.data.id] =
          MkPage(call.args.spaceKey, 1, call.args.title, call.args.parentId)
     /\ Cardinality(Methods({"POST"})) = 1

C3SearchValidation ==
  (/\ call.name = "search_confluence"
   /\ call.args.query \in {Undef, ""}
   /\ call.args.title \in {Undef, ""})
  => Done /\ Failed({"validation"}) /\ http = <<>> /\ call.op = ""

C3Witness ==
  /\ Done /\ call.name = "search_confluence"
  /\ call.args.query = "" /\ call.args.title = Undef /\ call.args.spaceKey = "DEV"
  /\ Failed({"validation"})

\* the tool call in flight lacks an argument its input schema requires
MissingRequired ==
  LET a == call.args IN
  CASE call.name \in {"get_page", "get_page_children"} -> a.pageId = NoId
    [] call.name = "create_page" ->
         a.spaceKey = Undef \/ a.title = Undef \/ a.content = Undef
    [] call.name = "update_page" ->
         a.pageId = NoId \/ a.title = Undef \/ a.content = Undef \/ a.version = NoVersion
    [] call.name = "move_page" -> a.pageId = NoId \/ a.targetSpaceKey = Undef
    [] call.name = "get_space_by_id" -> a.spaceId = Undef
    [] call.name \in {"get_space_by_key", "get_space_content"} -> a.spaceKey = Undef
    [] OTHER -> FALSE

\* C4 as claimed: a tool call that lacks a required argument ends in the
\* handler with a validation error; the adapter is not entered and no request
\* is issued.
C4Original ==
  (call.via = "tool" /\ MissingRequired)
  => Done /\ Failed({"validation"}) /\ call.op = "" /\ http = <<>>

\* C5 as claimed: when the remote rejects update_page's write for its stale
\* version, the caller receives the remote's error itself, and one PUT at most
\* was issued.
C5Original ==
  (Done /\ call.name = "update_page" /\ Failed({"upstream"})
     /\ call.result.cause.detail = "409")
  => call.result.code = "Error" /\ Cardinality(Methods({"PUT"})) <= 1

C5State ==
  call.name = "update_page" =>
    /\ Cardinality(Methods({"PUT"})) <= 1
    /\ Methods({"POST", "DELETE"}) = {}
    /\ \A i \in Methods({"PUT"}) :
         http[i].data.version = call.args.version /\ i = Len(http)

C5ConflictStep ==
  (/\ call.name = "update_page" /\ call.pc = "put" /\ call' # call
   /\ pages[call.args.pageId].exists
   /\ call.args.title # Undef
   /\ call.args.version \notin {NoVersion, pages[call.args.pageId].version})
  => /\ call'.pc = "done"
     /\ call'.result.kind = "error"
     /\ call'.result.code = "InternalError"
     /\ call'.result.op = "update_page"
     /\ call'.result.cause = Err("upstream", "409")
     /\ http' = http
     /\ pages' = pages

\* C5 (amended): update_page issues at most one PUT, carrying the version
\* number the caller gave, and nothing after it; when that number is not the
\* page's current one the caller receives the handler's InternalError tool
\* error "Error executing update_page: <message>" whose message is the
\* remote's conflict error, and neither a second request nor a change of the
\* page follows.
C5UpdateVersion ==
  []C5State /\ [][C5ConflictStep]_vars

C5Witness ==
  /\ Done /\ call.name = "update_page"
  /\ call.args.pageId = 1 /\ call.args.version = 1 /\ pages[1].version = 2
  /\ Failed({"upstream"}) /\ call.result.cause.detail = "409"
  /\ call.result.code = "InternalError"
  /\ Len(http) = 2 /\ http[2].m = "PUT"

ListedPage ==
  listing[IF call.args.cursor = 0 THEN 1 ELSE call.args.cursor]

\* C6: list_spaces returns exactly the spaces of the remote page whose key is
\* in the allowlist, in the remote order, and size is their number.
C6ListSpaces ==
  (Done /\ call.name = "list_spaces" /\ call.result.kind = "ok")
  => /\ call.result.data.results = SelectSeq(ListedPage, LAMBDA sp : InAllowlist(sp.key))
     /\ call.result.data.size = Len(call.result.data.results)

C6Witness ==
  /\ Done /\ call.name = "list_spaces" /\ call.result.kind = "ok"
  /\ Len(ListedPage) = 2 /\ call.result.data.size = 1
  /\ call.result.data.results[1].key = "DEV"

\* two consecutive get_space_by_key calls for the same allowed key, the second ended
ConsecutiveLookups ==
  /\ Done /\ call.name = "get_space_by_key"
  /\ prev.name = "get_space_by_key" /\ prev.key = call.args.spaceKey
  /\ InAllowlist(call.args.spaceKey)

\* the names of the logged payloads that contain password, token,
\* authorization, auth, key or secret, whatever the case
SensitiveNames == {Chars("apiToken"), Chars("APITOKEN"), Chars("space-key")}

RECURSIVE Redacted(_)
Redacted(v) ==
  \A i \in 1..Len(v.f) :
    IF v.f[i].k \in SensitiveNames THEN v.f[i].v = Str("[REDACTED]")
    ELSE Redacted(v.f[i].v)

RECURSIVE Leaks(_)
Leaks(v) == v = Secret \/ \E i \in 1..Len(v.f) : Leaks(v.f[i].v)

\* C7 as claimed: in every line of the log, at every depth, a field whose
\* name contains one of the sensitive words carries the redaction marker, and
\* no line contains the secret itself.
C7Original ==
  \A n \in 1..Len(logFile) : Redacted(logFile[n]) /\ ~Leaks(logFile[n])

\* C8 as claimed: two consecutive get_space_by_key calls for the same allowed
\* key that start within one TTL of each other issue at most one remote request
\* between them.
C8Original ==
  (ConsecutiveLookups /\ call.startedAt < prev.startedAt + CACHE_TTL)
  => prev.nreq + Len(http) <= 1

\* C8 (amended): when the first of two consecutive get_space_by_key calls for
\* the same allowed key succeeds and the second starts before the cached
\* entry's expiry, the second returns without any remote request, so the pair
\* issues only the listing requests of the first call (one per listing page it
\* walked); when the second starts at or after the expiry it issues a new
\* GET /spaces.
C8CacheWindow ==
  ConsecutiveLookups =>
    /\ (prev.kind = "ok" /\ call.startedAt < prev.expiry) =>
         Len(http) = 0 /\ call.result.kind = "ok"
    /\ call.startedAt >= prev.expiry =>
         Len(http) >= 1 /\ http[1].m = "GET" /\ http[1].ep = "spaces"

C8Witness ==
  /\ ConsecutiveLookups
  /\ call.args.spaceKey = "OPS" /\ prev.kind = "ok" /\ prev.nreq = 2
  /\ call.startedAt > prev.startedAt /\ call.startedAt < prev.expiry
  /\ Len(http) = 0

IdsOf(items) == [i \in 1..Len(items) |-> items[i].id]

\* C12: getSpaceContent and getPageChildren with a body format, whichever of
\* the per-item body fetches fail, succeed and return the items of the basic
\* listing in its order: an item whose fetch failed has no body, an item
\* whose fetch answered carries the fetched body.
C12FanOut ==
  (/\ call.op \in {"getSpaceContent", "getPageChildren"}
   /\ call.args.bodyFormat # Undef /\ Len(call.items) > 0)
  => /\ Len(http) = Len(call.items) + (IF call.op = "getPageChildren" THEN 2 ELSE 1)
     /\ \A i \in 1..Len(call.items) :
          http[Len(http) - Len(call.items) + i].id = call.items[i].id
     /\ Done =>
          /\ call.result.kind = "ok"
          /\ IdsOf(call.result.data.results) =
               [i \in 1..Len(call.items) |-> http[Len(http) - Len(call.items) + i].id]
          /\ \A i \in 1..Len(call.items) :
               call.result.data.results[i].body =
                 (IF i \in call.failed THEN Undef ELSE "body")

C12Witness ==
  /\ Done /\ call.op = "getPageChildren" /\ call.result.kind = "ok"
  /\ Len(call.result.data.results) = 1 /\ call.failed = {1}
  /\ call.result.data.results[1].body = Undef

\* the errors the handler and the adapter throw, and the remote's failures
ErrorTypes ==
  {"denied", "denied_source", "denied_target", "validation", "upstream", "nospace",
   "no_space_id", "space_not_found", "unknown_tool", "invalid_url"}

\* C13: a tool call that fails ends with one tool error, the handler's
\* InternalError, whose message names the tool and carries the message of the
\* error that was thrown; and no request of a tool call is issued twice.
C13ToolError ==
  call.via = "tool" =>
    /\ (Done /\ call.result.kind = "error") =>
         /\ call.result.code = "InternalError"
         /\ call.result.op = call.name
         /\ call.result.cause.type \in ErrorTypes
    /\ \A i, j \in 1..Len(http) : http[i] = http[j] => i = j

C13Witness ==
  /\ Done /\ call.name = "get_page" /\ call.args.pageId = 4
  /\ Failed({"upstream"}) /\ call.result.cause.detail = "404"
  /\ call.result.code = "InternalError" /\ call.result.op = "get_page"
  /\ Len(http) = 1

\* C14: getConfig fails exactly when the base URL, the account identifier,
\* the token or the allowed-spaces list is not set or is the empty string,
\* whatever DEBUG is; on failure there is no configuration value, on success
\* the configuration carries the values of the environment.
C14GetConfig ==
  config.status # "unloaded" =>
    LET missing == {i \in 1..Len(RequiredEnv) :
                      RequiredEnv[i] \notin DOMAIN env \/ Len(env[RequiredEnv[i]]) = 0}
    IN /\ config.status = "ok" <=> missing = {}
       /\ missing # {} =>
            /\ config = [NoConfig EXCEPT !.status = config.status]
            /\ config.status = RequiredEnv[CHOOSE i \in missing : \A j \in missing : i <= j]
       /\ missing = {} =>
            /\ config.username = env["CONFLUENCE_USERNAME"]
            /\ config.apiToken = env["CONFLUENCE_API_TOKEN"]
            /\ Len(config.allowedSpaces) >= 1
            /\ config.baseUrl \in {env["CONFLUENCE_BASE_URL"],
                                   SubSeq(env["CONFLUENCE_BASE_URL"], 1,
                                          Len(env["CONFLUENCE_BASE_URL"]) - 1)}

C14Witness ==
  /\ config.status = "ok" /\ "DEBUG" \notin DOMAIN env
  /\ config.baseUrl = <<"u">> /\ env["CONFLUENCE_BASE_URL"] = <<"u", "/">>
  /\ config.allowedSpaces = << <<"D", "E", "V">>, <<"d", "e", "v">> >>

C15State ==
  access.asked =>
    /\ access.result <=>
         access.spaceKey \in {access.allowedSpaces[i] : i \in 1..Len(access.allowedSpaces)}
    /\ (access.spaceKey = <<"d", "e", "v">>
          /\ access.allowedSpaces = << <<"D", "E", "V">>, <<"O", "P", "S">> >>)
       => ~access.result
    /\ access.spaceKey \in {<<"D", "E", "V", " ">>, <<"D", "E">>, <<>>} => ~access.result

C15Step ==
  access' # access =>
    UNCHANGED <<now, listing, pages, nextId, spaceCache, spaceCacheExpiry, call, http,
                prev, ncalls, envMoves, logFile, env, config, stdout, stderr, writers,
                nwrites>>

\* C15: validateSpaceAccess answers true exactly when the key is an element
\* of the allowlist, compared as whole strings with their case, and calling
\* it changes nothing else.
C15ValidateSpaceAccess ==
  []C15State /\ [][C15Step]_vars

C15Witness ==
  /\ access.asked /\ access.spaceKey = <<"d", "e", "v">>
  /\ access.allowedSpaces = << <<"D", "E", "V">>, <<"O", "P", "S">> >>
  /\ ~access.result

\* the requests the step issues
NewlyIssued ==
  IF ncalls' # ncalls THEN http' ELSE SubSeq(http', Len(http) + 1, Len(http'))

\* the last line of the log after the step is of one of the types and names
\* the request
LastLineIs(types, req) ==
  /\ logFile' # <<>>
  /\ LET line == logFile'[Len(logFile')]
     IN /\ line.f[1].v \in {Str(t) : t \in types}
        /\ line.f[2].v = Str(req.m)
        /\ line.f[3].v = Str(req.ep)

C16Step ==
  /\ NewlyIssued # <<>> =>
       /\ logFile' # logFile
       /\ LastLineIs({"REQUEST"}, NewlyIssued[Len(NewlyIssued)])
  /\ (call.req # NoReq /\ call' # call /\ NewlyIssued = <<>>) =>
       /\ logFile' # logFile
       /\ LastLineIs({"RESPONSE", "ERROR"}, call.req)

\* C16 as claimed: every step of the adapter that issues a remote request
\* appends a REQUEST line for it to the audit log, and every step in which a
\* request is answered appends a RESPONSE or ERROR line for it.
C16Original == [][C16Step]_vars

\* C17 as claimed (the results themselves are computed without reading the
\* debug flag): with the debug flag set or not, standard output, the channel
\* the transport returns results on, carries nothing but the tool call's
\* response.
C17Original ==
  \A i \in 1..Len(stdout) : stdout[i] = "response"

\* what a space tool answers from the remote listing lst alone
Outcome(kind, cause, data) == [kind |-> kind, cause |-> cause, data |-> data]

FromRemote(name, args, lst) ==
  LET all == Flatten(lst)
      idx == IF args.cursor = 0 THEN 1 ELSE args.cursor
      byKey == SelectSeq(all, LAMBDA sp : sp.key = args.spaceKey)
      byId == SelectSeq(all, LAMBDA sp : sp.id = args.spaceId /\ sp.id # Undef)
  IN CASE name = "list_spaces" ->
            IF idx \in 1..Len(lst)
            THEN LET kept == SelectSeq(lst[idx], LAMBDA sp : InAllowlist(sp.key))
                 IN Outcome("ok", NoErr, [results |-> kept, size |-> Len(kept),
                                          next |-> IF idx < Len(lst) THEN idx + 1 ELSE 0])
            ELSE Outcome("error", Err("upstream", "400"), NoData)
       [] name = "get_space_by_key" ->
            IF ~InAllowlist(args.spaceKey)
            THEN Outcome("error", Err("denied", args.spaceKey), NoData)
            ELSE IF byKey # <<>> THEN Outcome("ok", NoErr, byKey[1])
            ELSE Outcome("error", Err("space_not_found", args.spaceKey), NoData)
       [] name = "get_space_by_id" ->
            IF byId = <<>> THEN Outcome("error", Err("upstream", "404"), NoData)
            ELSE IF ~InAllowlist(byId[1].key)
            THEN Outcome("error", Err("denied", byId[1].key), NoData)
            ELSE Outcome("ok", NoErr, byId[1])

\* the step ends a space tool call
Completes == call' # call /\ call'.pc = "done" /\ call'.name \in SpaceTools

AnsweredAs(o) ==
  Outcome(call'.result.kind, call'.result.cause, call'.result.data) = o

C18OriginalStep ==
  Completes => AnsweredAs(FromRemote(call'.name, call'.args, listing'))

C18Step ==
  Completes =>
    \/ AnsweredAs(FromRemote(call'.name, call'.args, listing'))
    \/ call'.result.kind = "error" /\ call'.result.cause.type = "invalid_url"
    \/ /\ call'.name \in {"get_space_by_key", "get_space_by_id"}
       /\ ncalls' = ncalls + 1 /\ ncalls >= 1 /\ http' = <<>>
       /\ call'.result.kind = "ok"
       /\ \E k \in DOMAIN spaceCache :
            /\ call'.result.data = spaceCache[k]
            /\ now < spaceCacheExpiry[k]
            /\ call'.name = "get_space_by_key" => k = call'.args.spaceKey
            /\ call'.name = "get_space_by_id" => spaceCache[k].id = call'.args.spaceId

PagesWalked(key) ==
  LET has == {i \in 1..Len(listing) : \E j \in 1..Len(listing[i]) : listing[i][j].key = key}
  IN IF has = {} THEN Len(listing) ELSE CHOOSE i \in has : \A k \in has : i <= k

\* C20 as claimed: a getSpaceByKey that missed the cache ends having fetched
\* the listing pages one after the other up to the first that has the key;
\* it returns the space, now cached, when some page of the listing has the
\* key, and fails with the space-not-found error when none has.
C20Original ==
  (Done /\ call.name = "get_space_by_key" /\ InAllowlist(call.args.spaceKey)
     /\ Len(http) >= 1)
  => /\ Len(http) = PagesWalked(call.args.spaceKey)
     /\ \A i \in 1..Len(http) :
          http[i].ep = "spaces" /\ http[i].data.cursor = (IF i = 1 THEN 0 ELSE i)
     /\ IF call.args.spaceKey \in RemoteKeys
        THEN /\ call.result.kind = "ok"
             /\ call.result.data.key = call.args.spaceKey
             /\ call.args.spaceKey \in DOMAIN spaceCache
             /\ spaceCache[call.args.spaceKey] = call.result.data
        ELSE Failed({"space_not_found"})

\* the unexpired cache entries whose descriptor has the identifier asked for
IdHits == {k \in DOMAIN spaceCache :
             spaceCache[k].id = call'.args.spaceId /\ isSpaceCacheValid(k)}

C21Begin ==
  (call.pc \in {"idle", "done"} /\ ncalls' = ncalls + 1 /\ call'.name = "get_space_by_id")
  => /\ UNCHANGED cacheVars
     /\ IF IdHits # {}
        THEN /\ call'.pc = "done" /\ call'.result.kind = "ok"
             /\ call'.result.data \in {spaceCache[k] : k \in IdHits}
             /\ http' = <<>>
        ELSE /\ call'.pc = "getSpace"
             /\ http' = <<Req("GET", "space", NoId, [spaceId |-> call'.args.spaceId])>>

C21Answer ==
  (call.pc = "getSpace" /\ call'.pc = "done")
  => LET r == call'.result IN
     /\ Len(http') = 1
     /\ r.kind = "ok" =>
          /\ InAllowlist(r.data.key)
          /\ r.data.id = call.args.spaceId
          /\ \E i \in 1..Len(RemoteSpaces) : RemoteSpaces[i] = r.data
          /\ spaceCache' = cacheSpaceIn(spaceCache, r.data)
          /\ spaceCacheExpiry' = cacheExpiryIn(spaceCacheExpiry, r.data)
     /\ r.kind = "error" =>
          /\ UNCHANGED cacheVars
          /\ r.cause.type \in {"denied", "upstream"}
          /\ r.cause.type = "denied" <=>
               \E i \in 1..Len(RemoteSpaces) :
                  /\ RemoteSpaces[i].id = call.args.spaceId /\ RemoteSpaces[i].id # Undef
                  /\ ~InAllowlist(RemoteSpaces[i].key)

\* C21: getSpaceById answers from an unexpired cache entry with the identifier
\* asked for, with no request; otherwise it issues one GET for the space, and
\* returns and caches the space fetched only when its key is in the allowlist:
\* when it is not, the call fails with access denied and the cache is as before.
C21GetSpaceById == [][C21Begin /\ C21Answer]_vars

\* a fetched space outside the allowlist was refused while the cache held entries
C21Witness ==
  /\ Done /\ call.name = "get_space_by_id" /\ Failed({"denied"})
  /\ Len(http) = 1
  /\ DOMAIN spaceCache # {}

\* the identifiers the remote lists for a key
RemoteIdsOf(key) ==
  {RemoteSpaces[i].id : i \in {j \in 1..Len(RemoteSpaces) : RemoteSpaces[j].key = key}}

\* C22: a createPage on an allowed space issues its POST last and only once,
\* after nothing but the listing requests of the space lookup; the POST
\* carries the identifier the remote lists for the key, the title, the
\* content and the parentId of the call (none when none was given); a call
\* that returned has issued it, and a call whose space was not found, has no
\* identifier, or whose lookup failed has issued no POST.
C22CreatePage ==
  (call.op = "createPage" /\ InAllowlist(call.args.spaceKey))
  => /\ \A i \in Methods({"POST"}) :
          /\ i = Len(http)
          /\ http[i].ep = "pages"
          /\ http[i].data.spaceId # Undef
          /\ http[i].data.spaceId \in RemoteIdsOf(call.args.spaceKey)
          /\ http[i].data.title = call.args.title
          /\ http[i].data.content = call.args.content
          /\ http[i].data.parentId = call.args.parentId
     /\ \A i \in 1..Len(http) :
          http[i].m = "POST" \/ (http[i].m = "GET" /\ http[i].ep = "spaces")
     /\ Methods({"PUT", "DELETE"}) = {}
     /\ (Done /\ call.result.kind = "ok") => Cardinality(Methods({"POST"})) = 1
     /\ (Done /\ Failed({"space_not_found", "no_space_id", "invalid_url"}))
          => Methods({"POST"}) = {}
     /\ (Done /\ (call.args.spaceKey \notin RemoteKeys
                    \/ RemoteIdsOf(call.args.spaceKey) = {Undef}))
          => /\ Failed({"space_not_found", "no_space_id", "invalid_url"})
             /\ Methods({"POST"}) = {}

\* a page with a parent was created after the lookup listed the space
C22Witness ==
  /\ Done /\ call.op = "createPage" /\ call.result.kind = "ok"
  /\ call.args.parentId # NoId
  /\ Len(http) >= 2
  /\ http[Len(http)].m = "POST" /\ http[Len(http)].data.parentId = call.args.parentId

C23State ==
  call.name = "move_page" =>
    /\ Cardinality(Methods({"PUT"})) <= 1
    /\ Methods({"POST", "DELETE"}) = {}
    /\ \A i \in Methods({"PUT"}) : i = Len(http) /\ http[i].id = call.args.pageId

\* the step in which the pre-fetch is answered and the PUT goes out
C23PutStep ==
  (call.name = "move_page" /\ call.pc = "getPage" /\ call'.pc = "put")
  => LET d == http'[Len(http')].data
         p == pages[call.args.pageId]
     IN /\ Len(http') = Len(http) + 1
        /\ d.version = p.version
        /\ d.title = p.title
        /\ d.space = call.args.targetSpaceKey
        /\ d.parent = call.args.parentId

\* the step in which the remote answers a PUT whose version is not current
C23ConflictStep ==
  (/\ call.name = "move_page" /\ call.pc = "put" /\ call' # call
   /\ pages[call.args.pageId].exists
   /\ call.args.targetSpaceKey \in RemoteKeys
   /\ call.req.data.version # pages[call.args.pageId].version)
  => /\ call'.pc = "done"
     /\ call'.result.kind = "error"
     /\ call'.result.op = "move_page"
     /\ call'.result.cause = Err("upstream", "409")
     /\ http' = http
     /\ pages' = pages

\* C23: move_page issues at most one PUT, as its last request; the PUT
\* carries the version number and the title the remote had when it answered
\* the call's pre-fetch, the target space key and the parentId of the call
\* (none when none was given); when the page's version is no longer that one
\* the call ends with the remote's conflict error, no further request and no
\* change of the page.
C23MovePage ==
  []C23State /\ [][C23PutStep /\ C23ConflictStep]_vars

\* a move lost against another user's edit of the page
C23Witness ==
  /\ Done /\ call.name = "move_page"
  /\ call.result.kind = "error" /\ call.result.cause = Err("upstream", "409")
  /\ Len(http) = 2 /\ http[2].m = "PUT"
  /\ http[2].data.parent # NoId
  /\ envMoves = 1

\* the file operations of one writeLog invocation, as steps
Checks(w) == writers[w].pc = "stat" /\ writers'[w].pc # "stat"
Rewrites(w) == writers[w].pc = "write" /\ writers'[w].pc = "append"
Appends(w) == writers[w].pc = "append" /\ writers'[w].pc = "done"

\* the last k lines of a file
LastLines(file, k) == SubSeq(file, Len(file) - k + 1, Len(file))

C24Frame ==
  \A w \in Writers :
    /\ Checks(w) =>
         /\ logFile' = logFile
         /\ writers'[w].pc = IF fileSize(logFile) > maxSizeBytes THEN "read" ELSE "append"
    /\ Appends(w) =>
         logFile' = Append(logFile, writers[w].entry)
    /\ ~(\E v \in Writers : Rewrites(v) \/ Appends(v)) => logFile' = logFile

C24OriginalStep ==
  /\ C24Frame
  /\ \A w \in Writers :
       Rewrites(w) =>
         logFile' = LastLines(writers[w].content, Len(writers[w].content) \div 2)

\* C24 as claimed: each write checks the file size first; over the threshold
\* the file is rewritten to the last floor(n / 2) of the n lines read, in
\* order; otherwise the content stays; then the entry is appended as the
\* last line.
C24Original == [][C24OriginalStep]_vars

C24Step ==
  /\ C24Frame
  /\ \A w \in Writers :
       Rewrites(w) =>
         logFile' = LastLines(writers[w].content,
                              (Len(writers[w].content) + 1) \div 2 - 1)

\* C24 (amended): each write checks the file size first; over the threshold
\* the file is rewritten to the last floor((n + 1) / 2) - 1 of the n lines
\* read, in order (one line fewer than half of them when n is even);
\* otherwise the content stays; then the entry is appended as the last line.
C24Trim == [][C24Step]_vars

\* a trim of two lines has left none
C24Witness ==
  \E w \in Writers :
    /\ writers[w].pc = "append"
    /\ Len(writers[w].content) = 2
    /\ logFile = <<>>

\* the requests of a listing call up to and with its listing request
ListingRequests == IF call.op = "getPageChildren" THEN 2 ELSE 1

\* the per-item body fetches a listing call has issued
BodyFetches == {i \in 1..Len(http) : i > ListingRequests}

\* the items the listing request returned, once it has answered
Listed ==
  IF call.pc = "fanout" THEN call.items
  ELSE IF Done /\ call.result.kind = "ok" THEN call.result.data.results
  ELSE <<>>

\* C25: getSpaceContent and getPageChildren issue body fetches only when a
\* body format was asked for and the listing has items; they are issued
\* together when the listing answers, one per listed item in listing order;
\* and the call returns only when none of them is outstanding.
C25FanOut ==
  (call.op \in {"getSpaceContent", "getPageChildren"})
  => /\ \A i \in BodyFetches :
          /\ http[i].m = "GET" /\ http[i].ep = "content"
          /\ http[i].id = Listed[i - ListingRequests].id
     /\ BodyFetches # {} => ~Falsy(call.args.bodyFormat) /\ Len(Listed) > 0
     /\ (call.pc = "fanout" \/ (Done /\ call.result.kind = "ok"))
          => Cardinality(BodyFetches) =
               (IF ~Falsy(call.args.bodyFormat) THEN Len(Listed) ELSE 0)
     /\ call.pc = "fanout" => call.pending # {} /\ call.pending \subseteq 1..Len(Listed)
     /\ Done => call.pending = {}
     /\ (Done /\ BodyFetches # {})
          => /\ call.result.kind = "ok"
             /\ \A i \in 1..Len(Listed) :
                  Listed[i].body # Undef \/ i \in call.failed

\* a space's two pages came back with the bodies of two fetches
C25Witness ==
  /\ Done /\ call.op = "getSpaceContent" /\ call.result.kind = "ok"
  /\ ~Falsy(call.args.bodyFormat)
  /\ Len(call.result.data.results) = 2
  /\ Cardinality(BodyFetches) = 2

\* C26: whatever the interleaving of the calls that write the space cache,
\* the descriptor map and the expiry map have the same keys, every
\* descriptor is stored under its own key, and every cached key is in the
\* allowlist.
C26CacheShape ==
  /\ DOMAIN spaceCache = DOMAIN spaceCacheExpiry
  /\ \A k \in DOMAIN spaceCache : spaceCache[k].key = k /\ InAllowlist(k)

\* the first call waits for its space while other calls have filled the cache
C26Witness ==
  /\ ncalls = 1 /\ call.pc = "getSpace"
  /\ DOMAIN spaceCache = {"DEV", "OPS"}
  /\ spaceCacheExpiry["DEV"] # spaceCacheExpiry["OPS"]

\* the step in which a call issues its PUT or DELETE
IssuesWrite ==
  /\ call.op \in {"updatePage", "deletePage", "movePage"}
  /\ Len(http') = Len(http) + 1
  /\ http'[Len(http')].m \in {"PUT", "DELETE"}

\* C27 as claimed: when updatePage, deletePage or movePage issues its PUT or
\* DELETE, the space that owns the page on the remote is in the allowlist,
\* whatever other users have done to the page since the pre-fetch.
C27Original ==
  [][IssuesWrite => InAllowlist(pages'[call.args.pageId].space)]_vars

\* the entries on the lines of a file
EntriesOf(file) == {file[i] : i \in 1..Len(file)}

\* C28 as claimed: with several log writes in flight, a writer's rewrite of
\* the file erases no entry but lines it has read itself: every entry that
\* another writer appended after the read is still in the file after the
\* write-back.
C28Original ==
  [][\A w \in Writers :
       Rewrites(w) =>
         (EntriesOf(logFile) \ EntriesOf(writers[w].content)) \subseteq EntriesOf(logFile')]_vars

\* C29 as claimed: a tool call naming a tool the handler has no case for ends
\* with a MethodNotFound error saying the tool is unknown, with no adapter
\* method entered and no remote request.
C29Original ==
  (Done /\ call.via = "tool" /\ Route(call.name) = "default")
  => /\ call.result.kind = "error"
     /\ call.result.code = "MethodNotFound"
     /\ call.result.cause.type = "unknown_tool"
     /\ call.op = ""
     /\ http = <<>>

\* C30 as claimed: whatever the query and title texts, double quotes
\* included, the query of a search request can match content of allowlist
\* spaces only, and the search returns pages of allowlist spaces only.
C30Original ==
  call.op = "searchContent" =>
    /\ \A i \in 1..Len(http) :
         \A k \in CqlMatchSpaces(http[i].data.cql) : InAllowlist(k)
    /\ (Done /\ call.result.kind = "ok") =>
         \A i \in 1..Len(call.result.data.content) :
           InAllowlist(pages[call.result.data.content[i].id].space)

\* C10 as claimed: a delete_page tool call is routed to deletePage, and when
\* it succeeds it has issued the page fetch and then one DELETE of that page.
C10Original ==
  (call.via = "tool" /\ call.name = "delete_page")
  => /\ call.op = "deletePage"
     /\ (Done /\ call.result.kind = "ok") =>
          /\ Len(http) = 2
          /\ http[1].m = "GET" /\ http[1].id = call.args.pageId
          /\ http[2].m = "DELETE" /\ http[2].id = call.args.pageId

====
